---------------------------- MODULE Spec2Model ----------------------------
(***************************************************************************)
(* Model of AdvancedSEOAuditor (src/seo_audit_streamlit.py): one audit of  *)
(* one page, from construction through fetch_page, the fourteen checks,    *)
(* generate_insights, generate_action_plan and calculate_scores.           *)
(*                                                                         *)
(* Conventions                                                             *)
(*   - text taken from the page (title, attribute values, hrefs) is a      *)
(*     sequence of one-character strings, so that len(), startswith(),     *)
(*     `in` and strip() are computed; fixed literals of the source are     *)
(*     TLA+ strings;                                                       *)
(*   - a Python float is an IEEE-754 binary64 value, kept as sign,         *)
(*     53-bit mantissa and exponent; the mantissa is a little-endian       *)
(*     sequence of limbs because it does not fit a machine integer of the  *)
(*     model checker;                                                      *)
(*   - a dict is a function whose domain is its key set.                   *)
(***************************************************************************)
EXTENDS Integers, Sequences, FiniteSets, TLC

\* None is the empty sequence and a present value x is <<x>>: self.soup,
\* self.response and the result of soup.find(...)
None == <<>>
Some(x) == <<x>>

(***************************************************************************)
(* Natural numbers of arbitrary size: little-endian limbs in base 2^15,    *)
(* no leading (high) zero limb, zero is the empty sequence.                *)
(***************************************************************************)
LimbBase == 32768

RECURSIVE Pow2(_)
Pow2(n) == IF n = 0 THEN 1 ELSE 2 * Pow2(n - 1)

RECURSIVE BigNorm(_)
BigNorm(a) ==
    IF a = <<>> THEN <<>>
    ELSE IF a[Len(a)] = 0 THEN BigNorm(SubSeq(a, 1, Len(a) - 1))
    ELSE a

RECURSIVE BigFromInt(_)
BigFromInt(n) ==
    IF n = 0 THEN <<>>
    ELSE <<n % LimbBase>> \o BigFromInt(n \div LimbBase)

RECURSIVE BigToInt(_)
BigToInt(a) ==
    IF a = <<>> THEN 0
    ELSE a[1] + LimbBase * BigToInt(Tail(a))

RECURSIVE BigMulCarry(_, _, _)
BigMulCarry(a, k, carry) ==
    IF a = <<>> THEN BigFromInt(carry)
    ELSE LET t == a[1] * k + carry
         IN  <<t % LimbBase>> \o BigMulCarry(Tail(a), k, t \div LimbBase)

\* a * k for 0 <= k <= 2^15
BigMulSmall(a, k) == BigNorm(BigMulCarry(a, k, 0))

RECURSIVE BigAddCarry(_, _, _)
BigAddCarry(a, b, carry) ==
    IF a = <<>> /\ b = <<>> THEN BigFromInt(carry)
    ELSE LET x == IF a = <<>> THEN 0 ELSE a[1]
             y == IF b = <<>> THEN 0 ELSE b[1]
             t == x + y + carry
         IN  <<t % LimbBase>>
               \o BigAddCarry(IF a = <<>> THEN <<>> ELSE Tail(a),
                              IF b = <<>> THEN <<>> ELSE Tail(b),
                              t \div LimbBase)

BigAdd(a, b) == BigNorm(BigAddCarry(a, b, 0))

RECURSIVE BigSubBorrow(_, _, _)
BigSubBorrow(a, b, borrow) ==
    IF a = <<>> THEN <<>>
    ELSE LET y == IF b = <<>> THEN 0 ELSE b[1]
             t == a[1] - y - borrow
         IN  <<IF t < 0 THEN t + LimbBase ELSE t>>
               \o BigSubBorrow(Tail(a),
                               IF b = <<>> THEN <<>> ELSE Tail(b),
                               IF t < 0 THEN 1 ELSE 0)

\* a - b for a >= b
BigSub(a, b) == BigNorm(BigSubBorrow(a, b, 0))

RECURSIVE BigLessFrom(_, _, _)
BigLessFrom(a, b, i) ==
    IF i = 0 THEN FALSE
    ELSE IF a[i] # b[i] THEN a[i] < b[i]
    ELSE BigLessFrom(a, b, i - 1)

\* a < b, both normalised
BigLess(a, b) ==
    IF Len(a) # Len(b) THEN Len(a) < Len(b)
    ELSE BigLessFrom(a, b, Len(a))

\* quotient and remainder of a by 1 <= d <= 2^15, from the high limb down
RECURSIVE BigDivRem(_, _, _)
BigDivRem(a, d, i) ==
    IF i > Len(a) THEN [q |-> <<>>, r |-> 0]
    ELSE LET hi == BigDivRem(a, d, i + 1)
             t  == hi.r * LimbBase + a[i]
         IN  [q |-> <<t \div d>> \o hi.q, r |-> t % d]

BigDivSmall(a, d) == BigNorm(BigDivRem(a, d, 1).q)
BigModSmall(a, d) == BigDivRem(a, d, 1).r

RECURSIVE BitLenInt(_)
BitLenInt(n) == IF n = 0 THEN 0 ELSE 1 + BitLenInt(n \div 2)

BigBitLen(a) ==
    IF a = <<>> THEN 0 ELSE 15 * (Len(a) - 1) + BitLenInt(a[Len(a)])

\* a * 2^s
BigShl(a, s) ==
    IF a = <<>> THEN <<>>
    ELSE BigMulSmall([i \in 1..(s \div 15) |-> 0] \o a, Pow2(s % 15))

\* floor(a / 2^s)
BigShr(a, s) ==
    IF s \div 15 >= Len(a) THEN <<>>
    ELSE BigDivSmall(SubSeq(a, (s \div 15) + 1, Len(a)), Pow2(s % 15))

\* a mod 2^s is not zero
BigLowBits(a, s) == BigShl(BigShr(a, s), s) # a

BigOdd(a) == a # <<>> /\ a[1] % 2 = 1

(***************************************************************************)
(* Python floats (IEEE-754 binary64, round to nearest, ties to even).      *)
(* A float is [s, m, e] with value s * m * 2^e; m is zero or has exactly   *)
(* 53 bits.  Only the operations the auditor performs are defined: a       *)
(* decimal literal, int * float, float + float, float - float,             *)
(* float / int and int(float).                                             *)
(***************************************************************************)
MantissaBits == 53

FZero == [s |-> 1, m |-> <<>>, e |-> 0]

\* the float nearest to s * N * 2^E / D   (N a big natural, 1 <= D <= 2^15)
\* round half to even: m0 is the kept part, guard the first dropped bit,
\* rest whether any lower bit is set
HalfEven(m0, guard, rest) ==
    IF guard /\ (rest \/ BigOdd(m0)) THEN BigAdd(m0, <<1>>) ELSE m0

\* a rounded mantissa that carried into a 54th bit is halved
FNormal(s, m1, e) ==
    IF BigBitLen(m1) > MantissaBits
    THEN [s |-> s, m |-> BigShr(m1, 1), e |-> e + 1]
    ELSE [s |-> s, m |-> m1, e |-> e]

\* q * 2^E, with a sticky bit for what lies below q, to 53 bits; drop is the
\* number of bits q has too many
FRoundDrop(s, q, sticky, E, drop) ==
    IF drop <= 0
    THEN [s |-> s, m |-> BigShl(q, 0 - drop), e |-> E + drop]
    ELSE FNormal(s,
                 HalfEven(BigShr(q, drop), BigOdd(BigShr(q, drop - 1)),
                          BigLowBits(q, drop - 1) \/ sticky),
                 E + drop)

FRoundQuotient(s, q, sticky, E) ==
    FRoundDrop(s, q, sticky, E, BigBitLen(q) - MantissaBits)

FRoundShifted(s, Nk, E, D) ==
    FRoundQuotient(s, BigDivSmall(Nk, D), BigModSmall(Nk, D) # 0, E)

\* extra quotient bits kept by a division
GuardBits(D) == IF D = 1 THEN 0 ELSE 70

\* the double nearest to s * N * 2^E / D (ties to even), N a magnitude
FRound(s, N, E, D) ==
    IF N = <<>> THEN FZero
    ELSE FRoundShifted(s, BigShl(N, GuardBits(D)), E - GuardBits(D), D)

Abs(n) == IF n < 0 THEN 0 - n ELSE n
Sign(n) == IF n < 0 THEN 0 - 1 ELSE 1
Max(a, b) == IF a > b THEN a ELSE b
Min(a, b) == IF a < b THEN a ELSE b

\* float(n)
FFromInt(n) == FRound(Sign(n), BigFromInt(Abs(n)), 0, 1)

\* the decimal literal n/10^k written in the source, e.g. 0.3 is FLiteral(3, 10)
FLiteral(n, d) == FRound(1, BigFromInt(n), 0, d)

\* n * f for an int n with |n| <= 2^15 (the int converts exactly)
FMulInt(n, f) == FRound(Sign(n) * f.s, BigMulSmall(f.m, Abs(n)), f.e, 1)

\* f / n for an int 1 <= n <= 2^15
FDivInt(f, n) == FRound(f.s, f.m, f.e, n)

FNeg(f) == [s |-> 0 - f.s, m |-> f.m, e |-> f.e]

\* the sum of sa * A and sb * B, both in units of 2^e0
FAddAligned(sa, A, sb, B, e0) ==
    IF sa = sb THEN FRound(sa, BigAdd(A, B), e0, 1)
    ELSE IF BigLess(A, B) THEN FRound(sb, BigSub(B, A), e0, 1)
    ELSE FRound(sa, BigSub(A, B), e0, 1)

FAddAt(a, b, e0) ==
    FAddAligned(a.s, BigShl(a.m, a.e - e0), b.s, BigShl(b.m, b.e - e0), e0)

FAdd(a, b) ==
    IF a.m = <<>> THEN b
    ELSE IF b.m = <<>> THEN a
    ELSE FAddAt(a, b, Min(a.e, b.e))

FSub(a, b) == FAdd(a, FNeg(b))

\* int(f): truncation toward zero
FTrunc(f) ==
    IF f.m = <<>> THEN 0
    ELSE f.s * BigToInt(IF f.e >= 0 THEN BigShl(f.m, f.e)
                        ELSE BigShr(f.m, 0 - f.e))

\* a MEDIUM penalty lighter than the LOW one
WeightMediumLight == FLiteral(1, 20)

\* the weights of calculate_scores
WeightPassed   == FLiteral(1, 1)
WeightLow      == FLiteral(1, 10)
WeightMedium   == FLiteral(3, 10)
WeightHigh     == FLiteral(6, 10)
WeightCritical == FLiteral(1, 1)

(***************************************************************************)
(* calculate_scores, overall part: the score for the five bucket sizes,    *)
(* total > 0.                                                              *)
(***************************************************************************)
\* int((total_achieved / total_possible) * 100)
ScorePercent(c, h, m, l, p) ==
    LET total_checks     == c + h + m + l + p
        passed_score     == FMulInt(p, WeightPassed)
        low_penalty      == FMulInt(l, WeightLow)
        medium_penalty   == FMulInt(m, WeightMedium)
        high_penalty     == FMulInt(h, WeightHigh)
        critical_penalty == FMulInt(c, WeightCritical)
        total_possible   == total_checks
        total_achieved   == FSub(passed_score,
                               FAdd(FAdd(FAdd(low_penalty, medium_penalty),
                                         high_penalty), critical_penalty))
    IN  FTrunc(FMulInt(100, FDivInt(total_achieved, total_possible)))

\* the score without the max(0, ...) around it
OverallScoreUnclamped(c, h, m, l, p) == ScorePercent(c, h, m, l, p)

OverallScore(c, h, m, l, p) == Max(0, ScorePercent(c, h, m, l, p))

(***************************************************************************)
(* Python str operations on character sequences.                           *)
(***************************************************************************)
Range(f) == {f[i] : i \in DOMAIN f}

StartsWith(s, p) == Len(s) >= Len(p) /\ SubSeq(s, 1, Len(p)) = p

\* p in s
Contains(s, p) ==
    \E i \in 1..(Len(s) - Len(p) + 1) : SubSeq(s, i, i + Len(p) - 1) = p

IsSpace(c) == c \in {" ", "\n", "\t"}

RECURSIVE LStrip(_)
LStrip(s) == IF s # <<>> /\ IsSpace(s[1]) THEN LStrip(Tail(s)) ELSE s

RECURSIVE RStrip(_)
RStrip(s) ==
    IF s # <<>> /\ IsSpace(s[Len(s)]) THEN RStrip(SubSeq(s, 1, Len(s) - 1))
    ELSE s

Strip(s) == RStrip(LStrip(s))

UpperLetters == <<"A", "B", "C", "D", "E", "F", "G", "H", "I", "J", "K", "L", "M", "N", "O", "P", "Q", "R", "S", "T", "U", "V", "W", "X", "Y", "Z">>
LowerLetters == <<"a", "b", "c", "d", "e", "f", "g", "h", "i", "j", "k", "l", "m", "n", "o", "p", "q", "r", "s", "t", "u", "v", "w", "x", "y", "z">>

LowerChar(c) ==
    IF \E i \in 1..26 : UpperLetters[i] = c
    THEN LowerLetters[CHOOSE i \in 1..26 : UpperLetters[i] = c]
    ELSE c

Lower(s) == [i \in 1..Len(s) |-> LowerChar(s[i])]

\* s.find(c) as a 1-based index, 0 when c does not occur
Find(s, cs) ==
    IF \E i \in 1..Len(s) : s[i] \in cs
    THEN CHOOSE i \in 1..Len(s) : s[i] \in cs /\ \A j \in 1..(i - 1) : s[j] \notin cs
    ELSE 0

\* the positions of s that satisfy Test, in increasing order
Positions(s, Test(_, _)) ==
    SelectSeq([i \in 1..Len(s) |-> i], LAMBDA i : Test(s, i))

\* s.split(): the maximal runs of non-space characters, in order
Split(s) ==
    LET starts == Positions(s, LAMBDA t, i :
                     ~IsSpace(t[i]) /\ (i = 1 \/ IsSpace(t[i - 1])))
        ends   == Positions(s, LAMBDA t, i :
                     ~IsSpace(t[i]) /\ (i = Len(t) \/ IsSpace(t[i + 1])))
    IN  [k \in 1..Len(starts) |-> SubSeq(s, starts[k], ends[k])]

\* the slice left out: the whole sequence
PrefixAll(s, n) == s

\* s[:n]
Prefix(s, n) == SubSeq(s, 1, Min(n, Len(s)))

RECURSIVE Concat(_)
Concat(ss) == IF ss = <<>> THEN <<>> ELSE ss[1] \o Concat(Tail(ss))

(***************************************************************************)
(* urllib.parse as used by the auditor: urlparse(u).netloc and             *)
(* urlparse(urljoin(base, href)).netloc.  A URL whose network location     *)
(* holds one of "[" and "]" without the other makes urlsplit raise         *)
(* ValueError.                                                             *)
(***************************************************************************)
SchemeChars ==
    Range(LowerLetters) \cup Range(UpperLetters)
      \cup {"0", "1", "2", "3", "4", "5", "6", "7", "8", "9", "+", "-", "."}

\* s up to the first character of cs, all of s when it has none
Before(s, cs) == IF Find(s, cs) = 0 THEN s ELSE SubSeq(s, 1, Find(s, cs) - 1)

\* the netloc of what follows the scheme: the text between a leading // and
\* the first of / ? #
NetlocOf(rest) ==
    IF ~StartsWith(rest, <<"/", "/">>) THEN <<>>
    ELSE Before(SubSeq(rest, 3, Len(rest)), {"/", "?", "#"})

\* ('[' in netloc) != (']' in netloc): urlsplit raises ValueError
BracketsUnbalanced(netloc) ==
    ("[" \in Range(netloc)) # ("]" \in Range(netloc))

SplitResult(scheme, netloc) ==
    [scheme |-> scheme, netloc |-> netloc, raises |-> BracketsUnbalanced(netloc)]

\* url[:i] is a scheme: i is the place of the first colon
HasScheme(url, i) ==
    /\ i > 1
    /\ url[1] \in Range(LowerLetters) \cup Range(UpperLetters)
    /\ \A j \in 1..(i - 1) : url[j] \in SchemeChars

UrlSplitAt(url, i, default) ==
    IF HasScheme(url, i)
    THEN SplitResult(Lower(SubSeq(url, 1, i - 1)),
                     NetlocOf(SubSeq(url, i + 1, Len(url))))
    ELSE SplitResult(default, NetlocOf(url))

UrlSplitStripped(url, default) == UrlSplitAt(url, Find(url, {":"}), default)

\* urlsplit(url, scheme=default): [scheme, netloc, raises]
UrlSplit(url0, default) == UrlSplitStripped(LStrip(url0), default)

\* urlparse(url).netloc
UrlNetloc(url) == UrlSplit(url, <<>>).netloc
UrlRaises(url) == UrlSplit(url, <<>>).raises

\* the netloc urljoin gives the parts u of the reference against the parts b
\* of the base
JoinNetloc(b, u) ==
    IF u.scheme # b.scheme THEN u.netloc
    ELSE IF u.netloc # <<>> THEN u.netloc
    ELSE b.netloc

JoinSplit(b, href) == JoinNetloc(b, UrlSplit(href, b.scheme))

\* urlparse(urljoin(base, href)).netloc for a non-empty href and an http(s) base
JoinedNetloc(base, href) == JoinSplit(UrlSplit(base, <<>>), href)

JoinRaises(base, href) == UrlSplit(href, UrlSplit(base, <<>>).scheme).raises

\* round(f, ndigits) as the integer round(f * scale), scale = 10^ndigits:
\* the exact binary value rounded half to even
FRoundScaledAt(s, N, e) ==
    IF e >= 0 THEN s * BigToInt(BigShl(N, e))
    ELSE s * BigToInt(HalfEven(BigShr(N, 0 - e), BigOdd(BigShr(N, 0 - e - 1)),
                               BigLowBits(N, 0 - e - 1)))

FRoundScaled(f, scale) ==
    IF f.m = <<>> THEN 0
    ELSE FRoundScaledAt(f.s, BigMulSmall(f.m, scale), f.e)

(***************************************************************************)
(* The document.  The body of a response is markup: the elements in        *)
(* document order, each with its nesting depth, its attributes and the     *)
(* text directly inside it.  BeautifulSoup turns it into a tree: every     *)
(* node gets an id and the ids of its ancestors (outermost first).         *)
(***************************************************************************)
El(tag, attrs, text, depth) ==
    [tag |-> tag, attrs |-> attrs, text |-> text, depth |-> depth]

NoAttrs == <<>>

\* BeautifulSoup(content, 'html.parser')
Parse(markup) ==
    [i \in 1..Len(markup) |->
        [id    |-> i,
         path  |-> [d \in 1..(markup[i].depth - 1) |->
                      CHOOSE j \in 1..(i - 1) :
                         /\ markup[j].depth = d
                         /\ \A k \in (j + 1)..(i - 1) : markup[k].depth # d],
         tag   |-> markup[i].tag,
         attrs |-> markup[i].attrs,
         text  |-> markup[i].text]]

HasAttr(n, k) == k \in DOMAIN n.attrs

\* n.get(k, default)
Attr(n, k, default) == IF HasAttr(n, k) THEN n.attrs[k] ELSE default

\* soup.find_all(tag, limit=1): the first match only
FindAllTagLimit1(soup, tag) ==
    IF \E i \in 1..Len(soup) : soup[i].tag = tag
    THEN <<soup[CHOOSE i \in 1..Len(soup) :
                   /\ soup[i].tag = tag
                   /\ \A j \in 1..(i - 1) : soup[j].tag # tag]>>
    ELSE <<>>

\* soup.find_all(tag)
FindAllTag(soup, tag) == SelectSeq(soup, LAMBDA n : n.tag = tag)

\* soup.find_all(tag, attrs={k: v})
FindAllAttr(soup, tag, k, v) ==
    SelectSeq(soup, LAMBDA n : n.tag = tag /\ HasAttr(n, k) /\ n.attrs[k] = v)

\* soup.find(...): the first match in document order, or None
First(matches) == IF matches = <<>> THEN None ELSE Some(matches[1])

\* element.get_text(): its text and the text of every descendant
GetText(soup, n) ==
    n.text \o Concat([i \in 1..Len(soup) |->
                        IF n.id \in Range(soup[i].path) THEN soup[i].text
                        ELSE <<>>])

\* soup.get_text()
GetAllText(soup) == Concat([i \in 1..Len(soup) |-> soup[i].text])

\* for element in soup(tags): element.decompose()
Decompose(soup, tags) ==
    LET gone == {soup[i].id : i \in {j \in 1..Len(soup) : soup[j].tag \in tags}}
    IN  SelectSeq(soup, LAMBDA n : n.id \notin gone /\ Range(n.path) \cap gone = {})

(***************************************************************************)
(* Findings.  An issue is what the checks append to critical_issues,       *)
(* high_priority, medium_priority and low_priority; a passed check is what *)
(* they append to passed_checks (it has 'check' and 'status', and no       *)
(* 'issue' or 'severity' key).  A message is the sequence of its pieces;   *)
(* a number formatted into it is its decimal string.  The explanatory      *)
(* fields that nothing reads back (impact, fix, how_to_fix, example,       *)
(* recommendation, ...) are left out of the records.                       *)
(***************************************************************************)
Issue(category, message, severity) ==
    [category |-> category, issue |-> message, severity |-> severity]

PassedCheck(category, check, status) ==
    [category |-> category, check |-> check, status |-> status]

Buckets ==
    <<"critical_issues", "high_priority", "medium_priority", "low_priority",
      "passed_checks">>

\* self.results[bucket].append(finding)
Append2(r, bucket, finding) == [r EXCEPT ![bucket] = Append(@, finding)]

\* the appends a method makes, in program order: adds holds the pairs
\* <<bucket, finding>>
RECURSIVE Extend(_, _)
Extend(r, adds) ==
    IF adds = <<>> THEN r
    ELSE Extend(Append2(r, adds[1][1], adds[1][2]), Tail(adds))

\* self.results[bucket].append(finding), as an entry for Extend
Add(bucket, finding) == << <<bucket, finding>> >>

\* if cond: self.results[bucket].append(finding)
When(cond, bucket, finding) == IF cond THEN Add(bucket, finding) ELSE <<>>

\* d.update(kv), d[k] = v
Update(d, kv) == kv @@ d

EmptyDict == <<>>

\* the dict literal of __init__
InitResults(u) ==
    [url              |-> u,
     timestamp        |-> "now",
     overall_score    |-> 0,
     category_scores  |-> EmptyDict,
     critical_issues  |-> <<>>,
     high_priority    |-> <<>>,
     medium_priority  |-> <<>>,
     low_priority     |-> <<>>,
     passed_checks    |-> <<>>,
     insights         |-> <<>>,
     action_plan      |-> <<>>,
     metadata         |-> EmptyDict,
     technical_data   |-> EmptyDict,
     content_data     |-> EmptyDict,
     performance_data |-> EmptyDict]

(***************************************************************************)
(* String literals of the source that are compared with page text.         *)
(***************************************************************************)
S_description    == <<"d", "e", "s", "c", "r", "i", "p", "t", "i", "o", "n">>
S_og_description == <<"o", "g", ":", "d", "e", "s", "c", "r", "i", "p", "t", "i", "o", "n">>
S_viewport       == <<"v", "i", "e", "w", "p", "o", "r", "t">>
S_robots         == <<"r", "o", "b", "o", "t", "s">>
S_canonical      == <<"c", "a", "n", "o", "n", "i", "c", "a", "l">>
S_nofollow       == <<"n", "o", "f", "o", "l", "l", "o", "w">>
S_noindex        == <<"n", "o", "i", "n", "d", "e", "x">>
S_device_width   == <<"w", "i", "d", "t", "h", "=", "d", "e", "v", "i", "c", "e", "-", "w", "i", "d", "t", "h">>
S_ld_json        == <<"a", "p", "p", "l", "i", "c", "a", "t", "i", "o", "n", "/", "l", "d", "+", "j", "s", "o", "n">>
S_flash          == <<"a", "p", "p", "l", "i", "c", "a", "t", "i", "o", "n", "/", "x", "-", "s", "h", "o", "c", "k", "w", "a", "v", "e", "-", "f", "l", "a", "s", "h">>
S_https          == <<"h", "t", "t", "p", "s", ":", "/", "/">>
S_HTTPS          == <<"H", "T", "T", "P", "S">>
S_Viewport       == <<"V", "i", "e", "w", "p", "o", "r", "t">>
CtaWords ==
    <<<<"l", "e", "a", "r", "n">>, <<"d", "i", "s", "c", "o", "v", "e", "r">>, <<"g", "e", "t">>, <<"f", "i", "n", "d">>, <<"e", "x", "p", "l", "o", "r", "e">>,
      <<"b", "o", "o", "k">>, <<"b", "u", "y">>, <<"s", "t", "a", "r", "t">>, <<"t", "r", "y">>, <<"c", "o", "n", "t", "a", "c", "t">>>>
SkippedHrefPrefixes == {<<"j", "a", "v", "a", "s", "c", "r", "i", "p", "t", ":">>, <<"m", "a", "i", "l", "t", "o", ":">>, <<"t", "e", "l", ":">>, <<"#">>}
ModernFormats == {<<".", "w", "e", "b", "p">>, <<".", "a", "v", "i", "f">>}
RasterFormats == {<<".", "j", "p", "g">>, <<".", "j", "p", "e", "g">>, <<".", "p", "n", "g">>}
\* each tag with the attribute value that is searched for
OgTags ==
    <<<<"og:title", <<"o", "g", ":", "t", "i", "t", "l", "e">>>>,
      <<"og:description", <<"o", "g", ":", "d", "e", "s", "c", "r", "i", "p", "t", "i", "o", "n">>>>,
      <<"og:image", <<"o", "g", ":", "i", "m", "a", "g", "e">>>>,
      <<"og:url", <<"o", "g", ":", "u", "r", "l">>>>,
      <<"og:type", <<"o", "g", ":", "t", "y", "p", "e">>>>>>
TwitterTags ==
    <<<<"twitter:card", <<"t", "w", "i", "t", "t", "e", "r", ":", "c", "a", "r", "d">>>>,
      <<"twitter:title", <<"t", "w", "i", "t", "t", "e", "r", ":", "t", "i", "t", "l", "e">>>>,
      <<"twitter:description", <<"t", "w", "i", "t", "t", "e", "r", ":", "d", "e", "s", "c", "r", "i", "p", "t", "i", "o", "n">>>>,
      <<"twitter:image", <<"t", "w", "i", "t", "t", "e", "r", ":", "i", "m", "a", "g", "e">>>>>>

\* self.results[dict][key] = value on one of the nested dicts
Store(r, dict, kv) == [r EXCEPT ![dict] = Update(@, kv)]

(***************************************************************************)
(* check_title_tag                                                         *)
(***************************************************************************)
CheckTitleTag(soup, r) ==
    LET title == First(FindAllTag(soup, "title"))
    IN  IF title = None
        THEN Append2(r, "critical_issues",
                 Issue("Technical SEO", <<"Missing <title> tag">>, "CRITICAL"))
        ELSE
        LET title_text   == Strip(GetText(soup, title[1]))
            title_length == Len(title_text)
            r1 == Store(r, "metadata",
                        [title |-> title_text, title_length |-> title_length])
        IN  IF title_text = <<>>
            THEN Append2(r1, "critical_issues",
                     Issue("Technical SEO", <<"Empty <title> tag">>, "CRITICAL"))
            ELSE
            LET r2 ==
                  IF title_length < 30
                  THEN Append2(r1, "high_priority",
                         Issue("Technical SEO",
                               <<"Title too short (", ToString(title_length),
                                 " characters)">>, "HIGH"))
                  ELSE IF title_length > 60
                  THEN Append2(r1, "medium_priority",
                         Issue("Technical SEO",
                               <<"Title too long (", ToString(title_length),
                                 " characters)">>, "MEDIUM"))
                  ELSE Append2(r1, "passed_checks",
                         [category |-> "Technical SEO",
                          check    |-> "Title Tag Length",
                          status   |-> <<"Optimal (", ToString(title_length),
                                         " characters)">>,
                          value    |-> title_text])
                r3 ==
                  IF ~Contains(title_text, <<"|">>) /\ ~Contains(title_text, <<"-">>)
                  THEN Append2(r2, "medium_priority",
                         Issue("Technical SEO",
                               <<"Title doesn't include brand separator">>,
                               "MEDIUM"))
                  ELSE r2
                words == Split(Lower(title_text))
                \* the message joins the duplicates in set iteration order;
                \* they are kept as the set itself
                duplicates ==
                  {w \in Range(words) :
                      Cardinality({i \in 1..Len(words) : words[i] = w}) > 1}
            IN  IF Len(words) # Cardinality(Range(words))
                THEN Append2(r3, "low_priority",
                       [category   |-> "Technical SEO",
                        issue      |-> <<"Duplicate words in title: ">>,
                        duplicates |-> duplicates,
                        severity   |-> "LOW"])
                ELSE r3

(***************************************************************************)
(* check_meta_description                                                  *)
(***************************************************************************)
CheckMetaDescription(soup, r) ==
    LET by_name   == First(FindAllAttr(soup, "meta", "name", S_description))
        meta_desc == IF by_name # None THEN by_name
                     ELSE First(FindAllAttr(soup, "meta", "property",
                                            S_og_description))
    IN  IF meta_desc = None
        THEN Append2(r, "critical_issues",
                 Issue("Technical SEO", <<"Missing meta description">>, "CRITICAL"))
        ELSE
        LET desc_text   == Strip(Attr(meta_desc[1], "content", <<>>))
            desc_length == Len(desc_text)
            r1 == Store(r, "metadata",
                        [description |-> desc_text,
                         description_length |-> desc_length])
            r2 ==
              IF desc_text = <<>>
              THEN Append2(r1, "critical_issues",
                     Issue("Technical SEO", <<"Empty meta description">>,
                           "CRITICAL"))
              ELSE IF desc_length < 120
              THEN Append2(r1, "high_priority",
                     Issue("Technical SEO",
                           <<"Meta description too short (", ToString(desc_length),
                             " characters)">>, "HIGH"))
              ELSE IF desc_length > 160
              THEN Append2(r1, "medium_priority",
                     Issue("Technical SEO",
                           <<"Meta description too long (", ToString(desc_length),
                             " characters)">>, "MEDIUM"))
              ELSE Append2(r1, "passed_checks",
                     PassedCheck("Technical SEO", "Meta Description",
                                 <<"Optimal (", ToString(desc_length),
                                   " characters)">>))
            has_cta == \E i \in 1..Len(CtaWords) :
                          Contains(Lower(desc_text), CtaWords[i])
        IN  IF ~has_cta
            THEN Append2(r2, "low_priority",
                   Issue("Content Optimization",
                         <<"Meta description lacks call-to-action">>, "LOW"))
            ELSE r2

(***************************************************************************)
(* check_headings_structure                                                *)
(***************************************************************************)
HeadingTag(i) == <<"h1", "h2", "h3", "h4", "h5", "h6">>[i]

CheckHeadingsStructure(soup, r) ==
    LET HeadText(n) == Prefix(Strip(GetText(soup, n)), 100)
        present == {i \in 1..6 : FindAllTag(soup, HeadingTag(i)) # <<>>}
        headings_data ==
          [t \in {HeadingTag(i) : i \in present} |->
             LET tags == FindAllTag(soup, t)
             IN  [count |-> Len(tags),
                  texts |-> [k \in 1..Min(5, Len(tags)) |-> HeadText(tags[k])]]]
        r1 == Store(r, "content_data", [headings |-> headings_data])
        h1_tags == FindAllTag(soup, "h1")
        r2 ==
          IF h1_tags = <<>>
          THEN Append2(r1, "critical_issues",
                 Issue("Technical SEO", <<"Missing H1 heading">>, "CRITICAL"))
          ELSE IF Len(h1_tags) > 1
          THEN Append2(r1, "high_priority",
                 [category |-> "Technical SEO",
                  issue    |-> <<"Multiple H1 tags found (", ToString(Len(h1_tags)),
                                 ")">>,
                  severity |-> "HIGH",
                  h1_tags  |-> [k \in 1..Len(h1_tags) |-> HeadText(h1_tags[k])]])
          ELSE
          LET h1_text == Strip(GetText(soup, h1_tags[1]))
              r1a == Append2(r1, "passed_checks",
                       [category |-> "Technical SEO",
                        check    |-> "H1 Heading",
                        status   |-> <<"Found">>,
                        value    |-> Prefix(h1_text, 100)])
          IN  IF Len(h1_text) < 20
              THEN Append2(r1a, "medium_priority",
                     Issue("Content Optimization",
                           <<"H1 too short (", ToString(Len(h1_text)),
                             " characters)">>, "MEDIUM"))
              ELSE r1a
        hierarchy_issues ==
          (IF "h3" \in DOMAIN headings_data /\ "h2" \notin DOMAIN headings_data
           THEN <<"H3 used without H2">> ELSE <<>>)
          \o (IF "h4" \in DOMAIN headings_data /\ "h3" \notin DOMAIN headings_data
              THEN <<"H4 used without H3">> ELSE <<>>)
    IN  IF DOMAIN headings_data = {} THEN r2
        ELSE IF hierarchy_issues # <<>>
        THEN Append2(r2, "medium_priority",
               [category |-> "Technical SEO",
                issue    |-> <<"Broken heading hierarchy">>,
                severity |-> "MEDIUM",
                issues   |-> hierarchy_issues])
        ELSE Append2(r2, "passed_checks",
               PassedCheck("Technical SEO", "Heading Hierarchy",
                           <<"Proper structure maintained">>))

\* [f(x) for x in seq]
Map(seq, F(_)) == [i \in 1..Len(seq) |-> F(seq[i])]

(***************************************************************************)
(* check_images_optimization.  The lists missing_title and large_images    *)
(* are local and never stored, so the int(width) * int(height) test (with  *)
(* its bare except) leaves no trace in the results.                        *)
(***************************************************************************)
CheckImagesOptimization(soup, r) ==
    LET images == FindAllTag(soup, "img")
        Src(n) == Attr(n, "src", <<>>)
        missing_alt == SelectSeq(images, LAMBDA n : ~HasAttr(n, "alt"))
        empty_alt ==
          SelectSeq(images, LAMBDA n : HasAttr(n, "alt") /\ Strip(n.attrs["alt"]) = <<>>)
        non_optimized_format ==
          SelectSeq(images,
            LAMBDA n : /\ Src(n) # <<>>
                       /\ ~\E f \in ModernFormats : Contains(Lower(Src(n)), f)
                       /\ \E f \in RasterFormats : Contains(Lower(Src(n)), f))
        total_images == Len(images)
        r1 == Store(r, "content_data",
                    [total_images |-> total_images,
                     images_missing_alt |-> Len(missing_alt)])
        r2 == IF missing_alt # <<>>
              THEN Append2(r1, "critical_issues",
                     [category |-> "Accessibility & SEO",
                      issue    |-> <<ToString(Len(missing_alt)),
                                     " images missing alt attribute">>,
                      severity |-> "CRITICAL",
                      images   |-> Prefix(Map(missing_alt,
                                       LAMBDA n : Prefix(Src(n), 100)), 10)])
              ELSE r1
        r3 == IF empty_alt # <<>>
              THEN Append2(r2, "high_priority",
                     [category |-> "Accessibility & SEO",
                      issue    |-> <<ToString(Len(empty_alt)),
                                     " images with empty alt text">>,
                      severity |-> "HIGH",
                      images   |-> Prefix(Map(empty_alt,
                                       LAMBDA n : Prefix(Src(n), 100)), 10)])
              ELSE r2
        r4 == IF non_optimized_format # <<>>
              THEN Append2(r3, "medium_priority",
                     Issue("Performance",
                           <<ToString(Len(non_optimized_format)),
                             " images using non-optimized formats">>, "MEDIUM"))
              ELSE r3
    IN  IF images = <<>>
        THEN Append2(r, "low_priority",
               Issue("Content Optimization", <<"No images found">>, "LOW"))
        ELSE IF missing_alt = <<>> /\ empty_alt = <<>>
        THEN Append2(r4, "passed_checks",
               PassedCheck("Accessibility", "Image Alt Text",
                           <<"All ", ToString(total_images),
                             " images have alt text">>))
        ELSE r4

(***************************************************************************)
(* check_schema_markup.  json.loads is reduced to what the check uses:     *)
(* the text is taken to be a JSON object when, stripped, it opens with a   *)
(* brace and closes with one; anything else raises inside the try and is   *)
(* skipped.  Its '@type' is the string after the first "@type":" .         *)
(***************************************************************************)
S_Unknown == <<"U", "n", "k", "n", "o", "w", "n">>
S_type_key == <<"\"", "@", "t", "y", "p", "e", "\"", ":", "\"">>

JsonLoadsIsDict(text) ==
    LET t == Strip(text)
    IN  Len(t) >= 2 /\ t[1] = "{" /\ t[Len(t)] = "}"

JsonType(text) ==
    IF ~Contains(text, S_type_key) THEN S_Unknown
    ELSE LET i == CHOOSE k \in 1..Len(text) :
                     /\ SubSeq(text, k, k + Len(S_type_key) - 1) = S_type_key
                     /\ \A j \in 1..(k - 1) :
                          SubSeq(text, j, j + Len(S_type_key) - 1) # S_type_key
             rest == SubSeq(text, i + Len(S_type_key), Len(text))
             q == Find(rest, {"\""})
         IN  IF q = 0 THEN S_Unknown ELSE SubSeq(rest, 1, q - 1)

\* itemtype.split('/')[-1]
RECURSIVE LastSegment(_)
LastSegment(t) ==
    LET k == Find(t, {"/"})
    IN  IF k = 0 THEN t ELSE LastSegment(SubSeq(t, k + 1, Len(t)))

CheckSchemaMarkup(soup, r) ==
    LET json_ld == FindAllAttr(soup, "script", "type", S_ld_json)
        microdata == SelectSeq(soup, LAMBDA n : HasAttr(n, "itemtype"))
        parsed == SelectSeq(json_ld, LAMBDA n : JsonLoadsIsDict(n.text))
        schemas_found ==
          Map(parsed, LAMBDA n : <<"JSON-LD: ", JsonType(n.text)>>)
          \o Map(microdata,
                 LAMBDA n : <<"Microdata: ",
                              IF n.attrs["itemtype"] # <<>>
                              THEN LastSegment(n.attrs["itemtype"])
                              ELSE S_Unknown>>)
        r1 == Store(r, "technical_data", [schemas |-> schemas_found])
    IN  IF json_ld = <<>> /\ microdata = <<>>
        THEN Append2(r1, "medium_priority",
               Issue("Technical SEO", <<"No schema markup found">>, "MEDIUM"))
        ELSE Append2(r1, "passed_checks",
               [category |-> "Technical SEO",
                check    |-> "Schema Markup",
                status   |-> <<"Found ", ToString(Len(schemas_found)), " schemas">>,
                schemas  |-> schemas_found])

(***************************************************************************)
(* check_mobile_optimization                                               *)
(***************************************************************************)
CheckMobileOptimization(soup, r) ==
    LET viewport == First(FindAllAttr(soup, "meta", "name", S_viewport))
        r1 ==
          IF viewport = None
          THEN Append2(r, "critical_issues",
                 Issue("Mobile Optimization", <<"Missing viewport meta tag">>,
                       "CRITICAL"))
          ELSE
          LET viewport_content == Attr(viewport[1], "content", <<>>)
              ra == Append2(r, "passed_checks",
                      [category |-> "Mobile Optimization",
                       check    |-> "Viewport Meta Tag",
                       status   |-> <<"Present">>,
                       value    |-> viewport_content])
          IN  IF ~Contains(viewport_content, S_device_width)
              THEN Append2(ra, "high_priority",
                     Issue("Mobile Optimization",
                           <<"Viewport not set to device width">>, "HIGH"))
              ELSE ra
        flash == SelectSeq(soup,
                   LAMBDA n : /\ n.tag \in {"embed", "object"}
                              /\ HasAttr(n, "type") /\ n.attrs["type"] = S_flash)
    IN  IF flash # <<>>
        THEN Append2(r1, "high_priority",
               Issue("Mobile Optimization",
                     <<"Flash content detected (", ToString(Len(flash)),
                       " elements)">>, "HIGH"))
        ELSE r1

(***************************************************************************)
(* check_https_security.  The stored headers are dict(response.headers):   *)
(* a plain dict keyed by the header names as the server sent them.         *)
(***************************************************************************)
SecurityHeaders ==
    <<<<"Strict-Transport-Security", "HSTS">>,
      <<"X-Content-Type-Options", "MIME sniffing protection">>,
      <<"X-Frame-Options", "Clickjacking protection">>,
      <<"X-XSS-Protection", "XSS protection">>,
      <<"Content-Security-Policy", "CSP">>>>

\* d.get(k, default)
Get(d, k, default) == IF k \in DOMAIN d THEN d[k] ELSE default

CheckHttpsSecurity(url, r) ==
    LET r1 ==
          IF ~StartsWith(url, S_https)
          THEN Append2(r, "critical_issues",
                 Issue("Security & Trust", <<"Site not using HTTPS">>, "CRITICAL"))
          ELSE Append2(r, "passed_checks",
                 PassedCheck("Security", "HTTPS", <<"Enabled">>))
        headers == Get(r.technical_data, "headers", EmptyDict)
        missing_headers ==
          SelectSeq(SecurityHeaders, LAMBDA h : h[1] \notin DOMAIN headers)
    IN  IF missing_headers # <<>>
        THEN Append2(r1, "low_priority",
               [category |-> "Security & Trust",
                issue    |-> <<"Missing security headers: ",
                               ToString(Len(missing_headers))>>,
                severity |-> "LOW",
                headers  |-> missing_headers])
        ELSE r1

(***************************************************************************)
(* check_canonical_url.  urlparse(canonical_url) raises ValueError on a    *)
(* malformed network location; the passed check has been appended by then. *)
(***************************************************************************)
CanonicalLinks(soup) ==
    SelectSeq(soup, LAMBDA n : /\ n.tag = "link" /\ HasAttr(n, "rel")
                               /\ S_canonical \in Range(n.attrs["rel"]))

CheckCanonicalUrlRaises(soup) ==
    /\ CanonicalLinks(soup) # <<>>
    /\ Attr(CanonicalLinks(soup)[1], "href", <<>>) # <<>>
    /\ UrlRaises(Attr(CanonicalLinks(soup)[1], "href", <<>>))

\* the results when the method returns or raises
CheckCanonicalUrl(soup, domain, r) ==
    LET canonical == First(CanonicalLinks(soup))
    IN  IF canonical = None
        THEN Append2(r, "high_priority",
               Issue("Technical SEO", <<"Missing canonical URL">>, "HIGH"))
        ELSE
        LET canonical_url == Attr(canonical[1], "href", <<>>)
            r1 == Append2(r, "passed_checks",
                    [category |-> "Technical SEO",
                     check    |-> "Canonical URL",
                     status   |-> <<"Present">>,
                     value    |-> canonical_url])
        IN  IF canonical_url # <<>> /\ ~UrlRaises(canonical_url)
               /\ UrlNetloc(canonical_url) # domain
            THEN Append2(r1, "high_priority",
                   [category  |-> "Technical SEO",
                    issue     |-> <<"Canonical points to different domain">>,
                    severity  |-> "HIGH",
                    canonical |-> canonical_url])
            ELSE r1

(***************************************************************************)
(* check_robots_meta                                                       *)
(***************************************************************************)
CheckRobotsMeta(soup, r) ==
    LET robots_meta == First(FindAllAttr(soup, "meta", "name", S_robots))
    IN  IF robots_meta # None
        THEN
        LET content == Lower(Attr(robots_meta[1], "content", <<>>))
            r1 == IF Contains(content, S_noindex)
                  THEN Append2(r, "critical_issues",
                         Issue("Technical SEO", <<"Page is set to NOINDEX">>,
                               "CRITICAL"))
                  ELSE r
        IN  IF Contains(content, S_nofollow)
            THEN Append2(r1, "high_priority",
                   Issue("Technical SEO", <<"Page is set to NOFOLLOW">>, "HIGH"))
            ELSE r1
        ELSE Append2(r, "passed_checks",
               PassedCheck("Technical SEO", "Robots Meta",
                           <<"Not blocking (default index, follow)">>))

\* f"{x:.1f}" and f"{x:.2f}" of a value given in tenths, in hundredths
Format1(t) == <<ToString(t \div 10), ".", ToString(t % 10)>>
Format2(h) ==
    <<ToString(h \div 100), ".", ToString((h % 100) \div 10), ToString(h % 10)>>

\* a > b for two floats
FGreater(a, b) == LET d == FSub(a, b) IN d.m # <<>> /\ d.s = 1

(***************************************************************************)
(* analyze_content_quality.  It first removes the non-content elements     *)
(* from self.soup itself, so it yields the tree it leaves behind as well   *)
(* as the results.  The cleaned text is the text with its runs of blanks   *)
(* and line breaks collapsed (strip per line and per double-blank chunk,   *)
(* join with ' ').                                                         *)
(***************************************************************************)
\* the list without nav
NonContentTagsNoNav == {"script", "style", "footer", "header", "aside"}

NonContentTags == {"script", "style", "nav", "footer", "header", "aside"}

StopWords ==
    {<<"t", "h", "e">>,
     <<"a">>,
     <<"a", "n">>,
     <<"a", "n", "d">>,
     <<"o", "r">>,
     <<"b", "u", "t">>,
     <<"i", "n">>,
     <<"o", "n">>,
     <<"a", "t">>,
     <<"t", "o">>,
     <<"f", "o", "r">>,
     <<"o", "f">>,
     <<"w", "i", "t", "h">>,
     <<"i", "s">>,
     <<"w", "a", "s">>,
     <<"a", "r", "e">>,
     <<"w", "e", "r", "e">>,
     <<"b", "e", "e", "n">>,
     <<"b", "e">>,
     <<"h", "a", "v", "e">>,
     <<"h", "a", "s">>,
     <<"h", "a", "d">>,
     <<"d", "o">>,
     <<"d", "o", "e", "s">>,
     <<"d", "i", "d">>,
     <<"w", "i", "l", "l">>,
     <<"w", "o", "u", "l", "d">>,
     <<"c", "o", "u", "l", "d">>,
     <<"s", "h", "o", "u", "l", "d">>,
     <<"m", "a", "y">>,
     <<"m", "i", "g", "h", "t">>,
     <<"c", "a", "n">>,
     <<"t", "h", "i", "s">>,
     <<"t", "h", "a", "t">>,
     <<"t", "h", "e", "s", "e">>,
     <<"t", "h", "o", "s", "e">>,
     <<"i">>,
     <<"y", "o", "u">>,
     <<"h", "e">>,
     <<"s", "h", "e">>,
     <<"i", "t">>,
     <<"w", "e">>,
     <<"t", "h", "e", "y">>,
     <<"t", "h", "e", "i", "r">>,
     <<"t", "h", "e", "m">>}

IsAlpha(w) ==
    w # <<>> /\ \A i \in 1..Len(w) :
                   w[i] \in Range(LowerLetters) \cup Range(UpperLetters)

\* the non-blank pieces of re.split(r'[.!?]+', text): one for every
\* character other than a terminator whose nearest non-blank predecessor is
\* a terminator (or that has none)
SentenceEnds == {".", "!", "?"}

SentenceCount(t) ==
    LET solid == Positions(t, LAMBDA u, i : ~IsSpace(u[i]))
    IN  Cardinality({k \in 1..Len(solid) :
                       /\ t[solid[k]] \notin SentenceEnds
                       /\ (k = 1 \/ t[solid[k - 1]] \in SentenceEnds)})

\* ' '.join(chunks): every run of blanks becomes one blank, none at the ends
JoinBlank(s) ==
    LET solid == Positions(s, LAMBDA u, i : ~IsSpace(u[i]))
        last  == IF solid = <<>> THEN 0 ELSE solid[Len(solid)]
        kept  == Positions(s, LAMBDA u, i :
                    \/ ~IsSpace(u[i])
                    \/ i > 1 /\ ~IsSpace(u[i - 1]) /\ i < last)
    IN  [k \in 1..Len(kept) |-> IF IsSpace(s[kept[k]]) THEN " " ELSE s[kept[k]]]

Count(seq, x) == Cardinality({i \in 1..Len(seq) : seq[i] = x})

\* the distinct elements in order of first occurrence (a Counter's key order)
Distinct(seq) ==
    LET firsts == {i \in 1..Len(seq) : \A j \in 1..(i - 1) : seq[j] # seq[i]}
    IN  SelectSeq([i \in 1..Len(seq) |-> <<i, seq[i]>>],
                  LAMBDA p : p[1] \in firsts)

\* Counter(words).most_common(n): by count, ties in order of first occurrence
RECURSIVE MostCommon(_, _, _)
MostCommon(words, keys, n) ==
    IF n = 0 \/ keys = <<>> THEN <<>>
    ELSE LET best == CHOOSE i \in 1..Len(keys) :
                        /\ \A j \in 1..Len(keys) :
                              Count(words, keys[j][2]) <= Count(words, keys[i][2])
                        /\ \A j \in 1..(i - 1) :
                              Count(words, keys[j][2]) < Count(words, keys[i][2])
         IN  <<keys[best][2]>>
               \o MostCommon(words,
                             SelectSeq(keys, LAMBDA p : p # keys[best]), n - 1)

AnalyzeContentQualitySoup(soup) == Decompose(soup, NonContentTags)

\* soup.find('main') or soup.find('article') or soup.find('body')
MainContent(soup) ==
    IF FindAllTag(soup, "main") # <<>> THEN First(FindAllTag(soup, "main"))
    ELSE IF FindAllTag(soup, "article") # <<>>
    THEN First(FindAllTag(soup, "article"))
    ELSE First(FindAllTag(soup, "body"))

\* main_content.get_text() if main_content else soup.get_text()
ContentText(soup, main_content) ==
    IF main_content # None THEN GetText(soup, main_content[1])
    ELSE GetAllText(soup)

\* sum(len(sentence.split()) ...) / max(len(sentences), 1) over the
\* non-blank sentences; 0 when there is none
AvgWordsPerSentence(word_count, sentence_count) ==
    IF sentence_count > 0 THEN FDivInt(FFromInt(word_count), sentence_count)
    ELSE FZero

\* words of 3 letters pass as well
CleanWordsFrom3(words) ==
    Map(SelectSeq(words, LAMBDA w : /\ Len(w) >= 3
                                    /\ Lower(w) \notin StopWords
                                    /\ IsAlpha(w)),
        LAMBDA w : Lower(w))

\* words longer than 3 letters, not stop words, alphabetic, in lower case
CleanWords(words) ==
    Map(SelectSeq(words, LAMBDA w : /\ Len(w) > 3
                                    /\ Lower(w) \notin StopWords
                                    /\ IsAlpha(w)),
        LAMBDA w : Lower(w))

\* the keyword part: top_keywords is stored when there is a clean word
ContentKeywords(clean_words, word_count, r) ==
    IF clean_words # <<>>
    THEN Store(r, "content_data",
           [top_keywords |->
              Map(MostCommon(clean_words, Distinct(clean_words), 10),
                  LAMBDA w :
                    [keyword |-> w,
                     count   |-> Count(clean_words, w),
                     \* the density in hundredths of a percent
                     density |->
                       FRoundScaled(
                         FMulInt(100, FDivInt(FFromInt(Count(clean_words, w)),
                                              word_count)), 100)])])
    ELSE r

\* the stored figures and the findings; the rounded averages are kept in
\* tenths
ContentFindings(word_count, sentence_count, paragraph_count, avg_words_per_sentence, r) ==
    Extend(
      Store(r, "content_data",
        [word_count      |-> word_count,
         sentence_count  |-> sentence_count,
         paragraph_count |-> paragraph_count,
         avg_words_per_sentence  |-> FRoundScaled(avg_words_per_sentence, 10),
         avg_words_per_paragraph |->
            IF paragraph_count > 0
            THEN FRoundScaled(FDivInt(FFromInt(word_count), paragraph_count), 10)
            ELSE 0]),
      (IF word_count < 300
       THEN Add("high_priority",
              Issue("Content Quality",
                    <<"Thin content (", ToString(word_count), " words)">>, "HIGH"))
       ELSE IF word_count >= 1000
       THEN Add("passed_checks",
              PassedCheck("Content Quality", "Word Count",
                          <<"Excellent (", ToString(word_count), " words)">>))
       ELSE Add("passed_checks",
              PassedCheck("Content Quality", "Word Count",
                          <<"Good (", ToString(word_count), " words)">>)))
      \o When(FGreater(avg_words_per_sentence, FFromInt(25)), "medium_priority",
           Issue("Content Quality",
                 <<"Long sentences (avg ">>
                   \o Format1(FRoundScaled(avg_words_per_sentence, 10))
                   \o <<" words)">>, "MEDIUM"))
      \o When(paragraph_count = 0, "high_priority",
           Issue("Content Quality", <<"No paragraph tags found">>, "HIGH")))

ContentOfWords(words, word_count, sentence_count, paragraph_count, r) ==
    ContentKeywords(CleanWords(words), word_count,
      ContentFindings(word_count, sentence_count, paragraph_count,
                      AvgWordsPerSentence(word_count, sentence_count), r))

ContentOfSplit(words, sentence_count, paragraph_count, r) ==
    ContentOfWords(words, Len(words), sentence_count, paragraph_count, r)

ContentOfText(text, paragraph_count, r) ==
    ContentOfSplit(Split(text), SentenceCount(text), paragraph_count, r)

ContentOfSoup(soup, r) ==
    ContentOfText(JoinBlank(ContentText(soup, MainContent(soup))),
                  Len(FindAllTag(soup, "p")), r)

AnalyzeContentQuality(soup0, r) ==
    ContentOfSoup(AnalyzeContentQualitySoup(soup0), r)

(***************************************************************************)
(* check_internal_linking.  urljoin raises ValueError on an href with a    *)
(* malformed network location; that happens inside the loop, before the    *)
(* results are touched.                                                    *)
(***************************************************************************)
CountedLinks(soup) ==
    SelectSeq(soup,
      LAMBDA n : /\ n.tag = "a" /\ HasAttr(n, "href")
                 /\ n.attrs["href"] # <<>>
                 /\ ~\E p \in SkippedHrefPrefixes : StartsWith(n.attrs["href"], p))

CheckInternalLinkingRaises(soup, url) ==
    \E i \in 1..Len(CountedLinks(soup)) :
       JoinRaises(url, CountedLinks(soup)[i].attrs["href"])

IsInternal(url, domain, href) ==
    LET netloc == JoinedNetloc(url, href)
    IN  netloc = domain \/ netloc = <<>>

LinkFindings(internal_links, external_links, external_follow, r) ==
    Extend(
      Store(r, "content_data",
        [internal_links |-> Len(internal_links),
         external_links |-> Len(external_links)]),
      (IF Len(internal_links) = 0
       THEN Add("high_priority",
              Issue("Internal Linking", <<"No internal links found">>, "HIGH"))
       ELSE IF Len(internal_links) < 3
       THEN Add("medium_priority",
              Issue("Internal Linking",
                    <<"Few internal links (", ToString(Len(internal_links)),
                      ")">>, "MEDIUM"))
       ELSE Add("passed_checks",
              PassedCheck("Internal Linking", "Internal Links",
                          <<ToString(Len(internal_links)),
                            " internal links found">>)))
      \o When(external_follow # <<>>, "passed_checks",
            PassedCheck("External Linking", "External Links",
                        <<ToString(Len(external_links)), " external links (",
                          ToString(Len(external_follow)), " follow)">>)))

\* the external links whose rel does not hold nofollow
ExternalFollow(external_links) ==
    SelectSeq(external_links,
              LAMBDA n : S_nofollow \notin Range(Attr(n, "rel", <<>>)))

ClassifiedLinks(internal_links, external_links, r) ==
    LinkFindings(internal_links, external_links,
                 ExternalFollow(external_links), r)

LinksOf(links, url, domain, r) ==
    ClassifiedLinks(
      SelectSeq(links, LAMBDA n : IsInternal(url, domain, n.attrs["href"])),
      SelectSeq(links, LAMBDA n : ~IsInternal(url, domain, n.attrs["href"])),
      r)

CheckInternalLinking(soup, url, domain, r) ==
    LinksOf(CountedLinks(soup), url, domain, r)

(***************************************************************************)
(* check_open_graph                                                        *)
(***************************************************************************)
\* ', '.join(names)
RECURSIVE JoinComma(_)
JoinComma(names) ==
    IF names = <<>> THEN <<>>
    ELSE IF Len(names) = 1 THEN <<names[1]>>
    ELSE <<names[1], ", ">> \o JoinComma(Tail(names))

CheckOpenGraph(soup, r) ==
    LET missing_og ==
          Map(SelectSeq(OgTags,
                LAMBDA t : FindAllAttr(soup, "meta", "property", t[2]) = <<>>),
              LAMBDA t : t[1])
        missing_twitter ==
          Map(SelectSeq(TwitterTags,
                LAMBDA t : FindAllAttr(soup, "meta", "name", t[2]) = <<>>),
              LAMBDA t : t[1])
        r1 == IF missing_og # <<>>
              THEN Append2(r, "medium_priority",
                     Issue("Social Media",
                           <<"Missing Open Graph tags: ">> \o JoinComma(missing_og),
                           "MEDIUM"))
              ELSE Append2(r, "passed_checks",
                     PassedCheck("Social Media", "Open Graph Tags",
                                 <<"All essential tags present">>))
    IN  IF missing_twitter # <<>>
        THEN Append2(r1, "low_priority",
               Issue("Social Media",
                     <<"Missing Twitter Card tags: ">> \o JoinComma(missing_twitter),
                     "LOW"))
        ELSE r1

(***************************************************************************)
(* check_page_performance.  A requests.Response is falsy when its status   *)
(* is 400 or above, so `if not self.response: return` skips the check for  *)
(* an error page.  response_time is kept in milliseconds; the float of     *)
(* seconds is ms / 1000.  The rounded values are kept in hundredths.       *)
(***************************************************************************)
ResponseOk(response) == response # None /\ response[1].status_code < 400

Seconds(ms) == FRound(1, BigFromInt(ms), 0, 1000)

PerformanceFindings(load_time, page_size_kb, page_size_mb, headers, r) ==
    Extend(
      Store(r, "performance_data",
        [load_time    |-> FRoundScaled(load_time, 100),
         page_size_kb |-> FRoundScaled(page_size_kb, 100),
         page_size_mb |-> FRoundScaled(page_size_mb, 100)]),
      (IF FGreater(load_time, FFromInt(3))
       THEN Add("high_priority",
              Issue("Performance",
                    <<"Slow page load time (">>
                      \o Format2(FRoundScaled(load_time, 100))
                      \o <<" seconds)">>, "HIGH"))
       ELSE IF FGreater(load_time, FFromInt(2))
       THEN Add("medium_priority",
              Issue("Performance",
                    <<"Page load time could be improved (">>
                      \o Format2(FRoundScaled(load_time, 100))
                      \o <<" seconds)">>, "MEDIUM"))
       ELSE Add("passed_checks",
              PassedCheck("Performance", "Page Load Time",
                          <<"Excellent (">>
                            \o Format2(FRoundScaled(load_time, 100))
                            \o <<"s)">>)))
      \o (IF FGreater(page_size_mb, FFromInt(2))
          THEN Add("high_priority",
                 Issue("Performance",
                       <<"Large page size (">>
                         \o Format2(FRoundScaled(page_size_mb, 100))
                         \o <<" MB)">>, "HIGH"))
          ELSE IF FGreater(page_size_kb, FFromInt(1024))
          THEN Add("medium_priority",
                 Issue("Performance",
                       <<"Page size could be optimized (",
                         ToString(FRoundScaled(page_size_kb, 1)), " KB)">>,
                       "MEDIUM"))
          ELSE Add("passed_checks",
                 PassedCheck("Performance", "Page Size",
                             <<"Good (", ToString(FRoundScaled(page_size_kb, 1)),
                               " KB)">>)))
      \o When("Content-Encoding" \notin DOMAIN headers, "medium_priority",
            Issue("Performance", <<"GZIP compression not enabled">>, "MEDIUM")))

\* page_size_bytes / 1024 and page_size_kb / 1024 are exact
CheckPagePerformance(response, r) ==
    IF ~ResponseOk(response) THEN r
    ELSE PerformanceFindings(
           Seconds(r.technical_data["response_time"]),
           FRound(1, BigFromInt(response[1].size), 0 - 10, 1),
           FRound(1, BigFromInt(response[1].size), 0 - 20, 1),
           r.technical_data["headers"], r)

(***************************************************************************)
(* check_redirects                                                         *)
(***************************************************************************)
CheckRedirects(r) ==
    LET redirect_count == r.technical_data["redirects"]
    IN  IF redirect_count > 0
        THEN Append2(r, "medium_priority",
               Issue("Technical SEO",
                     <<ToString(redirect_count), " redirect(s) detected">>,
                     "MEDIUM"))
        ELSE Append2(r, "passed_checks",
               PassedCheck("Technical SEO", "Redirects", <<"No redirects (good)">>))

(***************************************************************************)
(* generate_insights.  'HTTPS' in str(check) looks for the word anywhere   *)
(* in the printed dict of a passed check: in its fixed strings (only the   *)
(* check names below hold the words searched for) and in the page text it  *)
(* carries ('value', 'schemas').                                           *)
(***************************************************************************)
CheckNamesHolding(word) ==
    IF word = S_HTTPS THEN {"HTTPS"}
    ELSE IF word = S_Viewport THEN {"Viewport Meta Tag"}
    ELSE {}

StrHolds(check, word) ==
    \/ check.check \in CheckNamesHolding(word)
    \/ "value" \in DOMAIN check /\ Contains(check.value, word)
    \/ "schemas" \in DOMAIN check
         /\ \E i \in 1..Len(check.schemas) : Contains(check.schemas[i][2], word)

AnyPassedHolds(r, word) ==
    \E i \in 1..Len(r.passed_checks) : StrHolds(r.passed_checks[i], word)

Insight(type, title, message, action) ==
    [type |-> type, title |-> title, message |-> message, action |-> action]

GenerateInsights(r) ==
    LET critical_count == Len(r.critical_issues)
        high_count == Len(r.high_priority)
        word_count == Get(r.content_data, "word_count", 0)
        \* the rounded load time, in hundredths of a second
        load_time == Get(r.performance_data, "load_time", 0)
        insights ==
          (IF critical_count > 0
           THEN <<Insight("critical",
                          "Critical Issues Require Immediate Attention",
                          <<"Found ", ToString(critical_count), " critical issue(s)">>,
                          "Start with the Critical Issues tab")>>
           ELSE <<>>)
          \o (IF high_count > 3
              THEN <<Insight("warning",
                             "Multiple High-Priority Issues Detected",
                             <<"You have ", ToString(high_count),
                               " high-priority issues">>,
                             "Review High Priority tab")>>
              ELSE <<>>)
          \o (IF word_count < 300
              THEN <<Insight("suggestion", "Content Length Opportunity",
                             <<"Your page has only ", ToString(word_count), " words">>,
                             "Add comprehensive content covering user questions")>>
              ELSE <<>>)
          \o (IF ~AnyPassedHolds(r, S_HTTPS)
              THEN <<Insight("critical", "Security Alert",
                             <<"Your site is not using HTTPS">>,
                             "Obtain and install SSL certificate immediately")>>
              ELSE <<>>)
          \o (IF ~AnyPassedHolds(r, S_Viewport)
              THEN <<Insight("critical", "Mobile Optimization Missing",
                             <<"Page is not optimized for mobile devices">>,
                             "Add viewport meta tag and ensure responsive design")>>
              ELSE <<>>)
          \o (IF load_time > 300
              THEN <<Insight("warning", "Performance Optimization Needed",
                             <<"Page loads in ", ToString(load_time), "/100 s">>,
                             "Optimize images, enable caching, use CDN")>>
              ELSE <<>>)
    IN  [r EXCEPT !.insights = insights]

(***************************************************************************)
(* generate_action_plan                                                    *)
(***************************************************************************)
Phase(priority, phase, title, tasks, impact, effort) ==
    [priority |-> priority, phase |-> phase, title |-> title, tasks |-> tasks,
     impact |-> impact, effort |-> effort]

OngoingTasks ==
    <<"Expand content to 1000+ words", "Add relevant keywords naturally",
      "Improve readability", "Add more internal links",
      "Update content regularly">>

GenerateActionPlan(r) ==
    LET Tasks(bucket) == Map(Prefix(r[bucket], 5), LAMBDA f : f.issue)
        action_plan ==
          (IF r.critical_issues # <<>>
           THEN <<Phase(1, "Immediate (This Week)", "Fix Critical Issues",
                        Tasks("critical_issues"), "High", "Medium")>>
           ELSE <<>>)
          \o (IF r.high_priority # <<>>
              THEN <<Phase(2, "Short Term (This Month)",
                           "Address High Priority Items",
                           Tasks("high_priority"), "Medium-High", "Medium")>>
              ELSE <<>>)
          \o (IF r.medium_priority # <<>>
              THEN <<Phase(3, "Medium Term (Next 2-3 Months)",
                           "Improve Medium Priority Areas",
                           Tasks("medium_priority"), "Medium", "Low-Medium")>>
              ELSE <<>>)
          \o <<Phase(4, "Ongoing", "Content Optimization", OngoingTasks,
                     "High (Long-term)", "High")>>
    IN  [r EXCEPT !.action_plan = action_plan]

(***************************************************************************)
(* calculate_scores                                                        *)
(***************************************************************************)
Categories ==
    <<"Technical SEO", "Content Quality", "Performance", "Mobile Optimization",
      "Security">>

InCategory(bucket, category) ==
    Len(SelectSeq(bucket, LAMBDA f : f.category = category))

\* the low-priority findings counted as issues too
CategoryScoreWithLow(r, category) ==
    LET category_passed == InCategory(r.passed_checks, category)
        category_issues == InCategory(r.critical_issues, category)
                           + InCategory(r.high_priority, category)
                           + InCategory(r.medium_priority, category)
                           + InCategory(r.low_priority, category)
        total == category_passed + category_issues
    IN  IF total > 0
        THEN FTrunc(FMulInt(100, FDivInt(FFromInt(category_passed), total)))
        ELSE 100

CategoryScore(r, category) ==
    LET category_passed == InCategory(r.passed_checks, category)
        category_issues == InCategory(r.critical_issues, category)
                           + InCategory(r.high_priority, category)
                           + InCategory(r.medium_priority, category)
        total == category_passed + category_issues
    IN  IF total > 0
        THEN FTrunc(FMulInt(100, FDivInt(FFromInt(category_passed), total)))
        ELSE 100

CalculateScores(r) ==
    LET total_checks == Len(r.critical_issues) + Len(r.high_priority)
                        + Len(r.medium_priority) + Len(r.low_priority)
                        + Len(r.passed_checks)
        r1 == IF total_checks > 0
              THEN [r EXCEPT !.overall_score =
                       OverallScore(Len(r.critical_issues), Len(r.high_priority),
                                    Len(r.medium_priority), Len(r.low_priority),
                                    Len(r.passed_checks))]
              ELSE r
    IN  [r1 EXCEPT !.category_scores =
            Update(@, [c \in Range(Categories) |-> CategoryScore(r, c)])]

(***************************************************************************)
(* The pages the audits are run on.                                        *)
(***************************************************************************)
Rep(c, n) == [i \in 1..n |-> c]

\* n copies of the word w, a full stop after every `per` words
Prose(w, n, per) ==
    LET unit == Len(w) + 1
        sentence == per * unit + 1
        \* the word (1-based) that position i falls in, and the offset in it
        CharAt(i) ==
          LET s == (i - 1) \div sentence
              o == (i - 1) % sentence
          IN  IF o = sentence - 1 THEN " "
              ELSE IF o % unit < Len(w) THEN w[(o % unit) + 1]
              ELSE IF o = sentence - 2 THEN "."
              ELSE " "
    IN  [i \in 1..((n \div per) * sentence + (n % per) * unit) |-> CharAt(i)]

Title(t)          == El("title", NoAttrs, t, 3)
MetaName(n, c)    == El("meta", [name |-> n, content |-> c], <<>>, 3)
MetaProp(n, c)    == El("meta", [property |-> n, content |-> c], <<>>, 3)
Canonical(h)      == El("link", [rel |-> <<S_canonical>>, href |-> h], <<>>, 3)
JsonLd(t)         == El("script", [type |-> S_ld_json], t, 3)
A(h, t, d)        == El("a", [href |-> h], t, d)
ANoFollow(h, t, d) == El("a", [href |-> h, rel |-> <<S_nofollow>>], t, d)
Img(s, d)         == El("img", [src |-> s], <<>>, d)
ImgAlt(s, a, d)   == El("img", [src |-> s, alt |-> a], <<>>, d)
Tag(t, txt, d)    == El(t, NoAttrs, txt, d)

Doc(head, body) ==
    <<Tag("html", <<>>, 1), Tag("head", <<>>, 2)>> \o head
      \o <<Tag("body", <<>>, 2)>> \o body

T_good     == <<"O", "m", "o", " ", "V", "a", "l", "l", "e", "y", " ", "C", "u", "l", "t", "u", "r", "a", "l", " ", "T", "o", "u", "r", "s", " ", "|", " ", "Y", "o", "u", "r", "B", "r", "a", "n", "d">>
T_long_dup == <<"T", "o", "u", "r", "s", " ", "t", "o", "u", "r", "s", " ", "a", "n", "d", " ", "m", "o", "r", "e", " ", "t", "o", "u", "r", "s", " ", "f", "o", "r", " ", "e", "v", "e", "r", "y", " ", "t", "r", "a", "v", "e", "l", "l", "e", "r", " ", "v", "i", "s", "i", "t", "i", "n", "g", " ", "E", "t", "h", "i", "o", "p", "i", "a">>
T_short    == <<"H", "i", " ", "H", "T", "T", "P", "S">>
D_good     == <<"D", "i", "s", "c", "o", "v", "e", "r", " ">> \o Rep("d", 130)
D_short    == <<"T", "o", "o", " ", "s", "h", "o", "r", "t">>
H_home     == <<"/">>
H_about    == <<"/", "a", "b", "o", "u", "t", "?", "x", "=", "1", "#", "t", "o", "p">>
H_rel      == <<"c", "o", "n", "t", "a", "c", "t", ".", "h", "t", "m", "l">>
H_same     == <<"h", "t", "t", "p", "s", ":", "/", "/", "a", ".", "c", "o", "m", "/", "b", "l", "o", "g">>
H_other    == <<"h", "t", "t", "p", "s", ":", "/", "/", "b", ".", "o", "r", "g", "/", "x">>
H_frag     == <<"#", "t", "o", "p">>
H_mail     == <<"m", "a", "i", "l", "t", "o", ":", "m", "e", "@", "a", ".", "c", "o", "m">>
H_bad      == <<"h", "t", "t", "p", ":", "/", "/", "[">>
C_same     == <<"h", "t", "t", "p", "s", ":", "/", "/", "a", ".", "c", "o", "m", "/", "p">>
C_other    == <<"h", "t", "t", "p", "s", ":", "/", "/", "b", ".", "o", "r", "g", "/", "p">>
V_good     == <<"w", "i", "d", "t", "h", "=", "d", "e", "v", "i", "c", "e", "-", "w", "i", "d", "t", "h", ",", " ", "i", "n", "i", "t", "i", "a", "l", "-", "s", "c", "a", "l", "e", "=", "1">>
V_fixed    == <<"w", "i", "d", "t", "h", "=", "6", "0", "0">>
J_org      == <<"{", "\"", "@", "t", "y", "p", "e", "\"", ":", "\"", "O", "r", "g", "\"", "}">>
J_broken   == <<"{", "o", "o", "p", "s">>
W_text     == <<"w", "o", "r", "d">>
I_png      == <<"/", "i", "m", "g", "/", "a", ".", "p", "n", "g">>
I_webp     == <<"/", "i", "m", "g", "/", "b", ".", "w", "e", "b", "p">>
X_alt      == <<"A", " ", "p", "h", "o", "t", "o">>

SocialTags ==
    [i \in 1..Len(OgTags) |-> MetaProp(OgTags[i][2], X_alt)]
      \o [i \in 1..Len(TwitterTags) |-> MetaName(TwitterTags[i][2], X_alt)]

\* nothing but the skeleton
DocBare == Doc(<<>>, <<>>)

\* a well kept page: its navigation sits in <header><nav>
DocGood ==
    Doc(<<Title(T_good), MetaName(S_description, D_good),
          MetaName(S_viewport, V_good), Canonical(C_same), JsonLd(J_org)>>
          \o SocialTags,
        <<Tag("header", <<>>, 3), Tag("nav", <<>>, 4),
          A(H_home, W_text, 5), A(H_about, W_text, 5), A(H_rel, W_text, 5),
          Tag("main", <<>>, 3),
          Tag("h1", Rep("h", 24), 4),
          Tag("h2", W_text, 4),
          Tag("p", Prose(W_text, 310, 10), 4),
          ImgAlt(I_webp, X_alt, 4),
          A(H_same, W_text, 4), A(H_other, W_text, 4)>>)

\* a neglected page
DocPoor ==
    Doc(<<Title(T_short), MetaProp(S_og_description, D_short),
          MetaName(S_viewport, V_fixed), Canonical(C_other),
          MetaName(S_robots, <<"N", "o", "I", "n", "d", "e", "x", ",", " ", "N", "o", "F", "o", "l", "l", "o", "w">>), JsonLd(J_broken)>>,
        <<Tag("h1", W_text, 3), Tag("h1", W_text, 3), Tag("h3", W_text, 3),
          Img(I_png, 3), ImgAlt(I_png, << " " >>, 3),
          El("embed", [type |-> S_flash], <<>>, 3),
          El("div", [itemtype |-> <<"h", "t", "t", "p", "s", ":", "/", "/", "s", "c", "h", "e", "m", "a", ".", "o", "r", "g", "/", "A", "r", "t", "i", "c", "l", "e">>], <<>>, 3),
          Tag("aside", W_text, 3), A(H_frag, W_text, 4), A(H_mail, W_text, 4),
          A(H_home, W_text, 3), ANoFollow(H_other, W_text, 3),
          Tag("article", Prose(W_text, 30, 30), 3)>>)

\* a long title with a repeated word, one short H1, links only in the footer
DocFooter ==
    Doc(<<Title(T_long_dup), MetaName(S_description, Rep("d", 170)),
          MetaName(S_viewport, V_good)>>,
        <<Tag("h1", W_text, 3),
          Tag("p", Prose(W_text, 40, 4), 3),
          ImgAlt(I_webp, X_alt, 3),
          Tag("footer", <<>>, 3),
          A(H_home, W_text, 4), A(H_about, W_text, 4), A(H_rel, W_text, 4)>>)

\* a link whose href has a malformed network location
DocBadHref ==
    Doc(<<Title(T_good), MetaName(S_viewport, V_good), Canonical(C_same)>>,
        <<Tag("h1", Rep("h", 24), 3), Tag("p", Prose(W_text, 20, 5), 3),
          A(H_home, W_text, 3), A(H_bad, W_text, 3)>>)

\* a canonical link whose href has a malformed network location
DocBadCanonical ==
    Doc(<<Title(T_good), MetaName(S_viewport, V_good), Canonical(H_bad)>>,
        <<Tag("h1", Rep("h", 24), 3), Tag("p", Prose(W_text, 20, 5), 3),
          A(H_home, W_text, 3)>>)

Docs == {DocBare, DocGood, DocPoor, DocFooter, DocBadHref, DocBadCanonical}

AllSecurityHeaders ==
    [h \in {"Strict-Transport-Security", "X-Content-Type-Options",
            "X-Frame-Options", "X-XSS-Protection", "Content-Security-Policy",
            "Content-Encoding", "Content-Type"} |-> "v"]

\* what the server adds to the document: status, time, headers, redirects, size
Transports ==
    {[status_code |-> 200, elapsed_ms |-> 1200, headers |-> AllSecurityHeaders,
      history |-> 0, size |-> 204800],
     [status_code |-> 200, elapsed_ms |-> 3004,
      headers |-> [h \in {"content-encoding", "Content-Type"} |-> "v"],
      history |-> 2, size |-> 3145728],
     [status_code |-> 200, elapsed_ms |-> 2500,
      headers |-> [h \in {"Content-Type"} |-> "v"],
      history |-> 0, size |-> 1572864],
     [status_code |-> 404, elapsed_ms |-> 900,
      headers |-> [h \in {"Content-Type"} |-> "v"],
      history |-> 1, size |-> 512]}

Responses ==
    {[status_code |-> t.status_code, elapsed_ms |-> t.elapsed_ms,
      headers |-> t.headers, history |-> t.history, size |-> t.size,
      content |-> d] : t \in Transports, d \in Docs}

Urls == {<<"h", "t", "t", "p", "s", ":", "/", "/", "a", ".", "c", "o", "m", "/", "p">>, <<"h", "t", "t", "p", ":", "/", "/", "a", ".", "c", "o", "m", "/", "p">>}

(***************************************************************************)
(* The auditor object and run_comprehensive_audit.                         *)
(*   url, domain, soup, response, html_content, results: the fields of     *)
(*     the AdvancedSEOAuditor;                                             *)
(*   pc: the statement of run_comprehensive_audit that runs next, or how   *)
(*     the call ended: "Done" (returned after calculate_scores), "Failed"  *)
(*     (returned after a failed fetch), "Raised" (left by an exception);   *)
(*   calls: the methods called so far, in order;                           *)
(*   returned: the caller holds the report (it is self.results itself);    *)
(*   runs: how many times run_comprehensive_audit was called on the object.*)
(***************************************************************************)
VARIABLES url, domain, soup, response, html_content, results, pc, calls,
          returned, runs

vars == <<url, domain, soup, response, html_content, results, pc, calls,
          returned, runs>>

\* the statements with generate_insights moved ahead of
\* check_page_performance
RunOrderInsightsEarly ==
    <<"fetch_page",
      "check_title_tag", "check_meta_description", "check_headings_structure",
      "check_images_optimization",
      "check_schema_markup", "check_mobile_optimization", "check_https_security",
      "check_canonical_url", "check_robots_meta",
      "analyze_content_quality", "check_internal_linking",
      "check_open_graph",
      "generate_insights",
      "check_page_performance", "check_redirects",
      "generate_action_plan", "calculate_scores">>

\* the statements of run_comprehensive_audit, in program order
RunOrder ==
    <<"fetch_page",
      "check_title_tag", "check_meta_description", "check_headings_structure",
      "check_images_optimization",
      "check_schema_markup", "check_mobile_optimization", "check_https_security",
      "check_canonical_url", "check_robots_meta",
      "analyze_content_quality", "check_internal_linking",
      "check_open_graph",
      "check_page_performance", "check_redirects",
      "generate_insights", "generate_action_plan", "calculate_scores">>

Position(step) == CHOOSE i \in 1..Len(RunOrder) : RunOrder[i] = step

\* where control goes when `step` completes normally
After(step) ==
    IF Position(step) = Len(RunOrder) THEN "Done"
    ELSE RunOrder[Position(step) + 1]

\* AdvancedSEOAuditor(url)
Init ==
    /\ url \in Urls
    /\ domain = UrlNetloc(url)
    /\ soup = None
    /\ response = None
    /\ html_content = <<>>
    /\ results = InitResults(url)
    /\ pc = "fetch_page"
    /\ calls = <<>>
    /\ returned = FALSE
    /\ runs = 1

\* a failed fetch_page that files the failure as a finding
FetchPageFailedRecorded(r) ==
    Append2(r, "critical_issues",
            Issue("Technical SEO", "Page could not be fetched", "CRITICAL"))

\* the results a failed fetch_page leaves: the except branch only reports
\* the error to the UI
FetchPageFailed(r) == r

\* fetch_page; requests.get either raises or delivers a response
fetch_page ==
    /\ pc = "fetch_page"
    /\ calls' = Append(calls, "fetch_page")
    /\ \/ /\ results' = FetchPageFailed(results)
          /\ pc' = "Failed"
          /\ returned' = TRUE
          /\ UNCHANGED <<soup, response, html_content>>
       \/ \E resp \in Responses :
            /\ response' = Some(resp)
            /\ html_content' = resp.content
            /\ soup' = Some(Parse(resp.content))
            /\ results' = Store(results, "technical_data",
                             [status_code   |-> resp.status_code,
                              response_time |-> resp.elapsed_ms,
                              headers       |-> resp.headers,
                              redirects     |-> resp.history])
            /\ pc' = After("fetch_page")
            /\ UNCHANGED returned
    /\ UNCHANGED <<url, domain, runs>>

\* a method that only updates the results and returns
Step(step, r) ==
    /\ pc = step
    /\ calls' = Append(calls, step)
    /\ results' = r
    /\ pc' = After(step)
    /\ returned' = (After(step) = "Done")
    /\ UNCHANGED <<url, domain, soup, response, html_content, runs>>

\* a method that raises: the exception leaves run_comprehensive_audit
Raise(step, r) ==
    /\ pc = step
    /\ calls' = Append(calls, step)
    /\ results' = r
    /\ pc' = "Raised"
    /\ UNCHANGED <<url, domain, soup, response, html_content, returned, runs>>

\* check_title_tag called twice in a row
check_title_tag_twice ==
    Step("check_title_tag",
         CheckTitleTag(soup[1], CheckTitleTag(soup[1], results)))

check_title_tag == Step("check_title_tag", CheckTitleTag(soup[1], results))

check_meta_description ==
    Step("check_meta_description", CheckMetaDescription(soup[1], results))

check_headings_structure ==
    Step("check_headings_structure", CheckHeadingsStructure(soup[1], results))

check_images_optimization ==
    Step("check_images_optimization", CheckImagesOptimization(soup[1], results))

check_schema_markup ==
    Step("check_schema_markup", CheckSchemaMarkup(soup[1], results))

check_mobile_optimization ==
    Step("check_mobile_optimization", CheckMobileOptimization(soup[1], results))

check_https_security ==
    Step("check_https_security", CheckHttpsSecurity(url, results))

check_canonical_url ==
    /\ pc = "check_canonical_url"
    /\ IF CheckCanonicalUrlRaises(soup[1])
       THEN Raise("check_canonical_url", CheckCanonicalUrl(soup[1], domain, results))
       ELSE Step("check_canonical_url", CheckCanonicalUrl(soup[1], domain, results))

check_robots_meta ==
    Step("check_robots_meta", CheckRobotsMeta(soup[1], results))

analyze_content_quality ==
    /\ pc = "analyze_content_quality"
    /\ calls' = Append(calls, "analyze_content_quality")
    /\ soup' = Some(AnalyzeContentQualitySoup(soup[1]))
    /\ results' = AnalyzeContentQuality(soup[1], results)
    /\ pc' = After("analyze_content_quality")
    /\ UNCHANGED <<url, domain, response, html_content, returned, runs>>

check_internal_linking ==
    /\ pc = "check_internal_linking"
    /\ IF CheckInternalLinkingRaises(soup[1], url)
       THEN Raise("check_internal_linking", results)
       ELSE Step("check_internal_linking",
                 CheckInternalLinking(soup[1], url, domain, results))

check_open_graph ==
    Step("check_open_graph", CheckOpenGraph(soup[1], results))

check_page_performance ==
    Step("check_page_performance", CheckPagePerformance(response, results))

check_redirects == Step("check_redirects", CheckRedirects(results))

generate_insights == Step("generate_insights", GenerateInsights(results))

generate_action_plan == Step("generate_action_plan", GenerateActionPlan(results))

\* calculate_scores, followed by `return self.results`
calculate_scores == Step("calculate_scores", CalculateScores(results))

Next ==
    \/ fetch_page
    \/ check_title_tag
    \/ check_meta_description
    \/ check_headings_structure
    \/ check_images_optimization
    \/ check_schema_markup
    \/ check_mobile_optimization
    \/ check_https_security
    \/ check_canonical_url
    \/ check_robots_meta
    \/ analyze_content_quality
    \/ check_internal_linking
    \/ check_open_graph
    \/ check_page_performance
    \/ check_redirects
    \/ generate_insights
    \/ generate_action_plan
    \/ calculate_scores

\* the program: main() builds a new auditor for every audit and calls
\* run_comprehensive_audit on it once
Spec == Init /\ [][Next]_vars

(***************************************************************************)
(* calculate_scores on its own: the five buckets are drawn from all sizes  *)
(* up to MaxBucket and the audit resumes at calculate_scores.              *)
(***************************************************************************)
MaxBucket == 3

SampleFinding(bucket) ==
    CASE bucket = "critical_issues" ->
           Issue("Technical SEO", "Missing title tag", "CRITICAL")
      [] bucket = "high_priority" ->
           Issue("Security", "Site not using HTTPS", "HIGH")
      [] bucket = "medium_priority" ->
           Issue("Content Quality", "No paragraph tags found", "MEDIUM")
      [] bucket = "low_priority" ->
           Issue("Performance", "Page size could be optimized", "LOW")
      [] OTHER ->
           PassedCheck("Technical SEO", "Redirects", "No redirects detected")

Filled(bucket, n) == [i \in 1..n |-> SampleFinding(bucket)]

InitScore ==
    /\ url \in Urls
    /\ domain = UrlNetloc(url)
    /\ soup = None
    /\ response = None
    /\ html_content = <<>>
    /\ \E c \in 0..MaxBucket, h \in 0..MaxBucket, m \in 0..MaxBucket,
          l \in 0..MaxBucket, p \in 0..MaxBucket :
          results = [InitResults(url) EXCEPT
                        !.critical_issues = Filled("critical_issues", c),
                        !.high_priority   = Filled("high_priority", h),
                        !.medium_priority = Filled("medium_priority", m),
                        !.low_priority    = Filled("low_priority", l),
                        !.passed_checks   = Filled("passed_checks", p)]
    /\ pc = "calculate_scores"
    /\ calls = SubSeq(RunOrder, 1, Len(RunOrder) - 1)
    /\ returned = FALSE
    /\ runs = 1

\* every audit run of Spec, and calculate_scores on every bucket sizes
SpecScore == (Init \/ InitScore) /\ [][Next]_vars

(***************************************************************************)
(* The auditor used for more than one audit: run_comprehensive_audit is    *)
(* called again on the same object, whose __init__ does not run again.     *)
(***************************************************************************)
MaxRuns == 2

run_again ==
    /\ pc \in {"Done", "Failed"}
    /\ runs < MaxRuns
    /\ runs' = runs + 1
    /\ pc' = "fetch_page"
    /\ calls' = <<>>
    /\ UNCHANGED <<url, domain, soup, response, html_content, results, returned>>

NextReuse == Next \/ run_again

SpecReuse == Init /\ [][NextReuse]_vars

(***************************************************************************)
(* Properties.                                                             *)
(***************************************************************************)
BucketSizes(r) ==
    [b \in Range(Buckets) |-> Len(r[b])]

AllBucketsEmpty(r) == \A b \in Range(Buckets) : r[b] = <<>>

ChecksOfRun ==
    {"check_title_tag", "check_meta_description", "check_headings_structure",
     "check_images_optimization", "check_schema_markup",
     "check_mobile_optimization", "check_https_security",
     "check_canonical_url", "check_robots_meta", "analyze_content_quality",
     "check_internal_linking", "check_open_graph", "check_page_performance",
     "check_redirects"}

AggregationSteps ==
    {"generate_insights", "generate_action_plan", "calculate_scores"}

\* C1: in every state of an audit run, and after calculate_scores on every
\* combination of bucket sizes, overall_score is an integer in 0..100; with
\* all five buckets empty it is 0.
C1_ScoreInRange ==
    /\ results.overall_score \in 0..100
    /\ AllBucketsEmpty(results) => results.overall_score = 0

\* calculate_scores has run on five empty buckets and left the score 0
C1_Witness ==
    /\ pc = "Done"
    /\ calls[Len(calls)] = "calculate_scores"
    /\ AllBucketsEmpty(results)
    /\ results.overall_score = 0

\* C2: after calculate_scores on C critical, H high, M medium, L low and P
\* passed findings, total > 0, overall_score is
\* max(0, floor(100 * (10P - L - 3M - 6H - 10C) / (10 * total))).
C2_ProportionalFormula ==
    pc = "Done" =>
      LET n == BucketSizes(results)
          total == n["critical_issues"] + n["high_priority"]
                   + n["medium_priority"] + n["low_priority"]
                   + n["passed_checks"]
          tenths == 10 * n["passed_checks"] - n["low_priority"]
                    - 3 * n["medium_priority"] - 6 * n["high_priority"]
                    - 10 * n["critical_issues"]
      IN  total > 0 =>
            results.overall_score = Max(0, (100 * tenths) \div (10 * total))

\* C3: when fetch_page fails, the report returned has all five buckets
\* empty and overall_score 0, and no check, insight generation, action-plan
\* generation or score calculation has run.
C3_FailedFetchReport ==
    pc = "Failed" =>
      /\ returned
      /\ AllBucketsEmpty(results)
      /\ results.overall_score = 0
      /\ calls = <<"fetch_page">>
      /\ results.insights = <<>>
      /\ results.action_plan = <<>>
      /\ results.category_scores = EmptyDict

\* the fetch has failed and the run has returned its report
C3_Witness ==
    /\ pc = "Failed"
    /\ returned
    /\ calls = <<"fetch_page">>
    /\ AllBucketsEmpty(results)

\* C4: the report returned after a failed fetch carries a failure marker:
\* it is not the report of an auditor that has not run at all.
C4_FailureMarker ==
    (pc = "Failed" /\ returned) => results # InitResults(url)

\* the state of the run in the terms of the state machine
RunState(p) ==
    IF p = "fetch_page" THEN "Fetching"
    ELSE IF p \in ChecksOfRun THEN "Running"
    ELSE IF p \in AggregationSteps THEN "Aggregating"
    ELSE p

RunEdges ==
    {<<"Fetching", "Running">>, <<"Fetching", "Failed">>,
     <<"Running", "Running">>, <<"Running", "Aggregating">>,
     <<"Aggregating", "Aggregating">>, <<"Aggregating", "Done">>}

\* C5: every step of a run goes along Fetching -> Running -> Aggregating ->
\* Done or Fetching -> Failed: Failed is entered only from Fetching, the
\* fetch is attempted once, and after a successful fetch the run stays on
\* the way to Done.
C5_StateMachine ==
    [][/\ <<RunState(pc), RunState(pc')>> \in RunEdges
       /\ pc' # "fetch_page"]_vars

\* the order the checks and the aggregation steps are stated to run in
C6_Order ==
    <<"fetch_page", "check_title_tag", "check_meta_description",
      "check_headings_structure", "check_images_optimization",
      "check_schema_markup", "check_mobile_optimization",
      "check_https_security", "check_canonical_url", "check_robots_meta",
      "analyze_content_quality", "check_internal_linking", "check_open_graph",
      "check_page_performance", "check_redirects", "generate_insights",
      "generate_action_plan", "calculate_scores">>

\* C6: the methods run one after another in the one fixed order (what has
\* run is always a prefix of it), so the aggregation steps start only after
\* check_redirects, and no aggregation step changes a bucket.
C6_SequentialOrder ==
    [][/\ Len(calls') <= Len(C6_Order)
       /\ \A i \in 1..Len(calls') : calls'[i] = C6_Order[i]
       /\ pc \in AggregationSteps =>
             \A b \in Range(Buckets) : results'[b] = results[b]]_vars

\* a run that has gone through all fourteen checks and the aggregation
C6_Witness ==
    /\ pc = "Done"
    /\ calls = C6_Order

\* C7: after a successful fetch no check raises.
C7_NoCheckRaises == pc # "Raised"

Severity ==
    [critical_issues |-> "CRITICAL", high_priority |-> "HIGH",
     medium_priority |-> "MEDIUM", low_priority |-> "LOW",
     passed_checks |-> "PASSED"]

\* C8: every finding of every bucket carries the severity of its bucket and
\* a non-empty category.
C8_FindingSeverity ==
    \A b \in Range(Buckets) : \A i \in 1..Len(results[b]) :
       /\ "severity" \in DOMAIN results[b][i]
       /\ results[b][i].severity = Severity[b]
       /\ "category" \in DOMAIN results[b][i]
       /\ results[b][i].category # ""

\* C9: the parsed document stays the tree fetch_page built.
C9_SnapshotReadOnly ==
    soup # None => soup = Some(Parse(response[1].content))

\* C10: once a report has been returned, nothing changes it, a second
\* run_comprehensive_audit on the same auditor included.
C10_ReportImmutable ==
    [][returned => results' = results]_vars

(***************************************************************************)
(* The single checks on pages built for them: the audit starts on a page   *)
(* that fetch_page has delivered (status 200, 1.2 s, 200 KB, all headers). *)
(***************************************************************************)
\* the lengths a stripped title is given
TitleLengths == {0, 1, 29, 30, 31, 59, 60, 61, 62}

\* a page whose title is n letters between blanks
PageTitle(n) == Doc(<<Title(<<" ">> \o Rep("t", n) \o <<" ", " ">>)>>, <<>>)

\* the same with a brand separator as its last character
PageTitleBrand(n) ==
    IF n = 0 THEN PageTitle(0)
    ELSE Doc(<<Title(<<" ">> \o Rep("t", n - 1) \o <<"|", " ">>)>>, <<>>)

TitlePages ==
    {PageTitle(n) : n \in TitleLengths} \cup {PageTitleBrand(n) : n \in TitleLengths}

\* a page with k H1 headings, and with an H2 or an H3 after them
PageH1(k, below) ==
    Doc(<<Title(T_good)>>,
        [i \in 1..k |-> Tag("h1", <<" ">> \o Rep("h", 20 + i) \o <<" ">>, 3)]
          \o (IF below = "" THEN <<>> ELSE <<Tag(below, W_text, 3)>>))

HeadingPages == {PageH1(k, below) : k \in 0..3, below \in {"", "h2", "h3"}}

\* a page with n words inside the element `tag` and m words in <article>
PageContent(tag, n, m) ==
    Doc(<<Title(T_good)>>,
        <<Tag(tag, Prose(W_text, n, 10), 3),
          Tag("article", Prose(W_text, m, 10), 3)>>)

\* the same with the element inside <main>, next to a paragraph of m words
PageContentNested(tag, n, m) ==
    Doc(<<Title(T_good)>>,
        <<Tag("main", <<>>, 3), Tag(tag, Prose(W_text, n, 10), 4),
          Tag("p", Prose(W_text, m, 10), 4)>>)

OutsideWords == 20
NavWords     == 1000
ArticleWords == 50

\* the elements whose text is said not to count
IgnoredElements == {"script", "style", "nav", "footer", "header", "aside"}

ContentPages ==
    {PageContent(tag, OutsideWords, ArticleWords) : tag \in IgnoredElements}
      \cup {PageContentNested(tag, OutsideWords, ArticleWords) :
               tag \in IgnoredElements}
      \cup {PageContent("nav", NavWords, ArticleWords)}

W_cat   == <<"t", "h", "e", " ", "c", "a", "t", " ", "s", "a", "t", " ", "o", "n", " ", "t", "h", "e", " ", "m", "a", "t", " ", "a", "n", "d", " ", "t", "h", "e", " ", "c", "a", "t", " ", "r", "a", "n">>
W_cats  == <<"T", "h", "e", " ", "c", "a", "t", "s", " ", "s", "a", "t", " ", "w", "i", "t", "h", " ", "t", "h", "e", " ", "m", "a", "t", "s", " ", "a", "n", "d", " ", "w", "i", "t", "h", " ", "t", "h", "e", " ", "C", "a", "t", "s", " ", "w", "i", "t", "h", " ", "t", "h", "e", "m">>
K_cat   == <<"c", "a", "t">>
K_cats  == <<"c", "a", "t", "s">>

\* a page whose only text is one paragraph
PageText(text) == Doc(<<Title(T_good)>>, <<Tag("p", text, 3)>>)

KeywordPages == {PageText(W_cat), PageText(W_cats)}

\* nothing but an og:description
PageOgOnly == Doc(<<MetaProp(S_og_description, D_good)>>, <<>>)

T_55    == <<"O", "m", "o", " ", "V", "a", "l", "l", "e", "y", " ", "C", "u", "l", "t", "u", "r", "a", "l", " ", "T", "o", "u", "r", "s", " ", "a", "n", "d", " ", "T", "r", "a", "v", "e", "l", " ", "G", "u", "i", "d", "e", "s", " ", "|", " ", "Y", "o", "u", "r", "B", "r", "a", "n", "d">>
D_155   == <<"D", "i", "s", "c", "o", "v", "e", "r", " ">> \o Rep("d", 146)
H_tours == <<"/", "t", "o", "u", "r", "s">>

\* the fully optimized page: title of 55 characters with a separator,
\* description of 155 characters with "discover", one H1 of 40 characters,
\* an image with alt text, viewport, canonical on the page's domain,
\* JSON-LD, a body of 600 words, 5 internal links, all Open Graph and
\* Twitter tags.  Left open by that description: the element that holds
\* the links (box) and the image file (src).
PageOptimal(box, src) ==
    Doc(<<Title(T_55), MetaName(S_description, D_155),
          MetaName(S_viewport, V_good), Canonical(C_same), JsonLd(J_org)>>
          \o SocialTags,
        <<Tag("h1", Rep("h", 40), 3),
          Tag(box, <<>>, 3),
          A(H_home, W_text, 4), A(H_about, W_text, 4), A(H_rel, W_text, 4),
          A(H_same, W_text, 4), A(H_tours, W_text, 4),
          Tag("main", <<>>, 3),
          Tag("p", Prose(W_text, 600, 10), 4),
          ImgAlt(src, X_alt, 4)>>)

OptimalPages == {PageOptimal(box, src) : box \in {"div", "nav"}, src \in {I_webp, I_png}}

\* a page with every critical defect: no title, description, H1 and
\* viewport, an image without alt, and a noindex robots meta
PageManyCritical ==
    Doc(<<MetaName(S_robots, S_noindex)>>, <<Img(I_png, 3)>>)

T_https == <<"W", "h", "y", " ", "H", "T", "T", "P", "S", " ", "m", "a", "t", "t", "e", "r", "s", " ", "f", "o", "r", " ", "e", "v", "e", "r", "y", " ", "s", "i", "t", "e", " ", "|", " ", "B", "r", "a", "n", "d">>

\* a page whose title, of a good length, speaks of HTTPS
PageHttpsTitle == Doc(<<Title(T_https)>>, <<>>)

\* the lengths a stripped meta description is given
DescLengths == {0, 1, 119, 120, 121, 159, 160, 161}

\* a page whose meta description is n letters between blanks
PageDesc(n) ==
    Doc(<<Title(T_good),
          MetaName(S_description, <<" ">> \o Rep("d", n) \o <<" ">>)>>, <<>>)

DescPages == {PageDesc(n) : n \in DescLengths}

\* canonical hrefs on the page's host a.com: absolute, host-less, empty
SameHostHrefs  == {C_same, H_same, H_home, H_about, H_rel, <<>>}
\* canonical hrefs on another host
OtherHostHrefs == {C_other, H_other}

\* a page whose canonical link has the href h
PageCanonical(h) == Doc(<<Title(T_good), Canonical(h)>>, <<>>)

CanonicalPages == {PageCanonical(h) : h \in SameHostHrefs \cup OtherHostHrefs}

Pages ==
    TitlePages \cup HeadingPages \cup ContentPages \cup KeywordPages
      \cup OptimalPages \cup DescPages \cup CanonicalPages
      \cup {DocBare, PageOgOnly, PageManyCritical, PageHttpsTitle}

FastTransport ==
    [status_code |-> 200, elapsed_ms |-> 1200, headers |-> AllSecurityHeaders,
     history |-> 0, size |-> 204800]

\* the auditor after fetch_page has delivered one of the pages
InitPages ==
    /\ url \in Urls
    /\ domain = UrlNetloc(url)
    /\ \E d \in Pages :
         /\ html_content = d
         /\ soup = Some(Parse(d))
         /\ response = Some([status_code |-> FastTransport.status_code,
                             elapsed_ms  |-> FastTransport.elapsed_ms,
                             headers     |-> FastTransport.headers,
                             history     |-> FastTransport.history,
                             size        |-> FastTransport.size,
                             content     |-> d])
    /\ results = Store(InitResults(url), "technical_data",
                       [status_code   |-> FastTransport.status_code,
                        response_time |-> FastTransport.elapsed_ms,
                        headers       |-> FastTransport.headers,
                        redirects     |-> FastTransport.history])
    /\ pc = After("fetch_page")
    /\ calls = <<"fetch_page">>
    /\ returned = FALSE
    /\ runs = 1

\* every audit run of Spec, and the audits of the pages
SpecPages == (Init \/ InitPages) /\ [][Next]_vars

\* every finding of the report, bucket after bucket
AllFindings(r) ==
    r.critical_issues \o r.high_priority \o r.medium_priority
      \o r.low_priority \o r.passed_checks

IsTitleLengthFinding(f) ==
    \/ "issue" \in DOMAIN f
         /\ f.issue[1] \in {"Title too short (", "Title too long ("}
    \/ "check" \in DOMAIN f /\ f.check = "Title Tag Length"

\* what check_title_tag has filed when it has just returned
TitleLengthFindings(bucket) ==
    SelectSeq(results[bucket], IsTitleLengthFinding)

\* C11: a title of stripped length n > 0 gets exactly one length finding:
\* HIGH "too short" iff n < 30, MEDIUM "too long" iff n > 60, a passed check
\* iff 30 <= n <= 60; an absent or empty title gets exactly one CRITICAL
\* finding and nothing else from check_title_tag.
C11_TitleLength ==
    pc = After("check_title_tag") =>
      /\ \A n \in TitleLengths \ {0} :
           html_content \in {PageTitle(n), PageTitleBrand(n)} =>
             /\ Len(SelectSeq(AllFindings(results), IsTitleLengthFinding)) = 1
             /\ (n < 30) <=>
                  /\ Len(TitleLengthFindings("high_priority")) = 1
                  /\ TitleLengthFindings("high_priority")[1].severity = "HIGH"
                  /\ TitleLengthFindings("high_priority")[1].issue[1]
                       = "Title too short ("
             /\ (n > 60) <=>
                  /\ Len(TitleLengthFindings("medium_priority")) = 1
                  /\ TitleLengthFindings("medium_priority")[1].severity = "MEDIUM"
                  /\ TitleLengthFindings("medium_priority")[1].issue[1]
                       = "Title too long ("
             /\ (n >= 30 /\ n <= 60) <=>
                  Len(TitleLengthFindings("passed_checks")) = 1
      /\ html_content \in {DocBare, PageTitle(0)} =>
           /\ Len(AllFindings(results)) = 1
           /\ Len(results.critical_issues) = 1
           /\ results.critical_issues[1].severity = "CRITICAL"

C11_Witness ==
    /\ pc = After("check_title_tag")
    /\ html_content = PageTitleBrand(61)
    /\ Len(TitleLengthFindings("medium_priority")) = 1
    /\ Len(AllFindings(results)) = 1

H1Count(markup) == Cardinality({i \in 1..Len(markup) : markup[i].tag = "h1"})

IsH1Finding(f) ==
    \/ "issue" \in DOMAIN f
         /\ f.issue[1] \in {"Missing H1 heading", "Multiple H1 tags found (",
                            "H1 too short ("}
    \/ "check" \in DOMAIN f /\ f.check = "H1 Heading"

\* the findings a step has added to a bucket
Added(bucket) ==
    SubSeq(results'[bucket], Len(results[bucket]) + 1, Len(results'[bucket]))

DocumentLinks == CountedLinks(html_content)

\* C13: check_internal_linking classifies every <a href> of the document
\* that is not an anchor, javascript:, mailto:, tel: or empty href as
\* exactly one of internal or external, internal iff the resolved URL has
\* no host or the page's; the two counts add up to the number of these
\* hrefs.
C13_LinkPartition ==
    [][pc = "check_internal_linking" =>
         /\ pc' = After("check_internal_linking")
         /\ results'.content_data.internal_links
              + results'.content_data.external_links = Len(DocumentLinks)
         /\ results'.content_data.internal_links =
              Len(SelectSeq(DocumentLinks,
                    LAMBDA n : IsInternal(url, domain, n.attrs["href"])))]_vars

IsThinContent(f, n) ==
    /\ f.severity = "HIGH"
    /\ f.issue = <<"Thin content (", ToString(n), " words)">>

\* C14: word_count leaves out the text inside script, style, nav, footer,
\* header and aside: a page with 1000 words in <nav> and 50 in <article>
\* reports word_count 50 and a HIGH thin-content finding.
C14_WordCountIgnores ==
    (pc = After("analyze_content_quality") /\ html_content \in ContentPages) =>
       /\ results.content_data.word_count = ArticleWords
       /\ \E i \in 1..Len(results.high_priority) :
             IsThinContent(results.high_priority[i], ArticleWords)

C14_Witness ==
    /\ pc = After("analyze_content_quality")
    /\ html_content = PageContent("nav", NavWords, ArticleWords)
    /\ results.content_data.word_count = ArticleWords

HasKeywords == "top_keywords" \in DOMAIN results.content_data

\* C15 as stated: stop words and tokens of at most 3 letters are no
\* keywords, and for "the cat sat on the mat and the cat ran" the top
\* keyword is "cat" with count 2.
C15_CatTopKeyword ==
    pc = After("analyze_content_quality") =>
      /\ HasKeywords =>
           \A i \in 1..Len(results.content_data.top_keywords) :
              /\ Len(results.content_data.top_keywords[i].keyword) > 3
              /\ results.content_data.top_keywords[i].keyword \notin StopWords
      /\ html_content = PageText(W_cat) =>
           /\ HasKeywords
           /\ results.content_data.top_keywords[1].keyword = K_cat
           /\ results.content_data.top_keywords[1].count = 2

\* C15, amended: stop words and tokens of at most 3 letters are no
\* keywords; "the cat sat on the mat and the cat ran" has no keyword at all
\* (every token is a stop word or has 3 letters at most), and for "The cats
\* sat with the mats and with the Cats with them" the top keyword is "cats"
\* with count 2.
C15_KeywordExclusion ==
    pc = After("analyze_content_quality") =>
      /\ HasKeywords =>
           \A i \in 1..Len(results.content_data.top_keywords) :
              /\ Len(results.content_data.top_keywords[i].keyword) > 3
              /\ results.content_data.top_keywords[i].keyword \notin StopWords
      /\ html_content = PageText(W_cat) => ~HasKeywords
      /\ html_content = PageText(W_cats) =>
           /\ HasKeywords
           /\ results.content_data.top_keywords[1].keyword = K_cats
           /\ results.content_data.top_keywords[1].count = 2

C15_Witness ==
    /\ pc = After("analyze_content_quality")
    /\ html_content = PageText(W_cats)
    /\ HasKeywords
    /\ results.content_data.top_keywords[1].keyword = K_cats
    /\ Len(results.content_data.top_keywords) = 2

NoTag(markup, tag) == \A i \in 1..Len(markup) : markup[i].tag # tag

NoMetaNamed(markup, name) ==
    \A i \in 1..Len(markup) :
       ~(/\ markup[i].tag = "meta"
         /\ "name" \in DOMAIN markup[i].attrs
         /\ markup[i].attrs["name"] = name)

HasCritical(message) ==
    \E i \in 1..Len(results.critical_issues) :
       /\ results.critical_issues[i].issue = <<message>>
       /\ results.critical_issues[i].severity = "CRITICAL"

\* the document has no <title>, no meta description, no <h1> and no
\* viewport meta, and the URL is an http:// one
NothingPresent ==
    /\ NoTag(html_content, "title")
    /\ NoTag(html_content, "h1")
    /\ NoMetaNamed(html_content, S_description)
    /\ NoMetaNamed(html_content, S_viewport)
    /\ SubSeq(url, 1, 7) = <<"h", "t", "t", "p", ":", "/", "/">>

\* C16: the completed audit of a document without <title>, meta
\* description, <h1> and viewport meta, fetched from an http:// URL, holds
\* at least 5 CRITICAL findings, one for each of the five absences.
C16_FiveCriticals ==
    (pc = "Done" /\ NothingPresent) =>
       /\ Len(results.critical_issues) >= 5
       /\ HasCritical("Missing <title> tag")
       /\ HasCritical("Missing meta description")
       /\ HasCritical("Missing H1 heading")
       /\ HasCritical("Missing viewport meta tag")
       /\ HasCritical("Site not using HTTPS")

\* C17: the completed audit of a page that meets the description of the
\* fully optimized fixture, fetched over https in 1.2 s with 200 KB, a
\* Content-Encoding header and no redirect, has no CRITICAL and no HIGH
\* finding and an overall_score of at least 90.
C17_OptimizedPage ==
    (/\ pc = "Done"
     /\ html_content \in OptimalPages
     /\ SubSeq(url, 1, 8) = S_https) =>
       /\ results.critical_issues = <<>>
       /\ results.high_priority = <<>>
       /\ results.overall_score >= 90

(***************************************************************************)
(* calculate_scores on findings of one category: up to MaxPassed passed    *)
(* checks and up to MaxBucket findings in each issue bucket, all tagged    *)
(* Technical SEO (the category with the most findings, 27 at most in one   *)
(* audit), next to passed checks of another category.                      *)
(***************************************************************************)
MaxPassed == 12

TaggedFinding(bucket, category) ==
    IF bucket = "passed_checks"
    THEN PassedCheck(category, "Sample check", <<"Passed">>)
    ELSE Issue(category, <<"Sample issue">>, Severity[bucket])

TaggedFindings(bucket, category, n) ==
    [i \in 1..n |-> TaggedFinding(bucket, category)]

InitCategory ==
    /\ url \in Urls
    /\ domain = UrlNetloc(url)
    /\ soup = None
    /\ response = None
    /\ html_content = <<>>
    /\ \E p \in 0..MaxPassed, q \in 0..1, c \in 0..MaxBucket,
          h \in 0..MaxBucket, m \in 0..MaxBucket, l \in 0..MaxBucket :
          results = [InitResults(url) EXCEPT
             !.critical_issues =
                TaggedFindings("critical_issues", "Technical SEO", c),
             !.high_priority =
                TaggedFindings("high_priority", "Technical SEO", h),
             !.medium_priority =
                TaggedFindings("medium_priority", "Technical SEO", m),
             !.low_priority =
                TaggedFindings("low_priority", "Technical SEO", l),
             !.passed_checks =
                TaggedFindings("passed_checks", "Technical SEO", p)
                  \o TaggedFindings("passed_checks", "Security", q)]
    /\ pc = "calculate_scores"
    /\ calls = SubSeq(RunOrder, 1, Len(RunOrder) - 1)
    /\ returned = FALSE
    /\ runs = 1

\* every audit run of Spec, and calculate_scores on the tagged findings
SpecCategory == (Init \/ InitCategory) /\ [][Next]_vars

\* the findings of a bucket that carry the category
Tagged(bucket, category) ==
    Cardinality({i \in 1..Len(results[bucket]) :
                    results[bucket][i].category = category})

PassedIn(category) == Tagged("passed_checks", category)

IssuesIn(category) ==
    Tagged("critical_issues", category) + Tagged("high_priority", category)
      + Tagged("medium_priority", category)

FixedCategories ==
    {"Technical SEO", "Content Quality", "Performance", "Mobile Optimization",
     "Security"}

\* C18: after a completed audit every one of the five fixed categories has
\* the score floor(100 * passed / (passed + issues)), where the issues are
\* the critical, high and medium findings of the category; 100 when the
\* category has no such finding; every score is in 0..100.
C18_CategoryScores ==
    pc = "Done" =>
      /\ DOMAIN results.category_scores = FixedCategories
      /\ \A c \in FixedCategories :
            /\ results.category_scores[c] =
                 IF PassedIn(c) + IssuesIn(c) = 0 THEN 100
                 ELSE (100 * PassedIn(c)) \div (PassedIn(c) + IssuesIn(c))
            /\ results.category_scores[c] \in 0..100

C18_Witness ==
    /\ pc = "Done"
    /\ PassedIn("Technical SEO") = 4
    /\ IssuesIn("Technical SEO") = 3
    /\ Len(results.low_priority) = 2
    /\ results.category_scores["Technical SEO"] = 57
    /\ results.category_scores["Performance"] = 100

\* the issue buckets that get a phase, with the phase's priority
PlanBuckets ==
    <<<<"critical_issues", 1>>, <<"high_priority", 2>>,
      <<"medium_priority", 3>>>>

\* the phase of a non-empty bucket: the messages of its first five findings
IsPhaseOf(phase, bucket, priority) ==
    /\ phase.priority = priority
    /\ Len(phase.tasks) = Min(5, Len(results[bucket]))
    /\ \A i \in 1..Len(phase.tasks) : phase.tasks[i] = results[bucket][i].issue

IsOngoingPhase(phase) ==
    /\ phase.priority = 4
    /\ phase.phase = "Ongoing"
    /\ phase.tasks = <<"Expand content to 1000+ words",
                       "Add relevant keywords naturally",
                       "Improve readability", "Add more internal links",
                       "Update content regularly">>

\* C19: the action plan holds, in this order, one phase for each non-empty
\* bucket among critical (priority 1), high (2) and medium (3), whose tasks
\* are the messages of the bucket's first min(5, size) findings in the
\* order they were filed, and then exactly one Ongoing phase (priority 4)
\* with the same five tasks; an empty bucket has no phase, and the
\* priorities rise strictly.
C19_ActionPlan ==
    pc \in {After("generate_action_plan"), "Done"} =>
      LET plan    == results.action_plan
          present == SelectSeq(PlanBuckets, LAMBDA b : results[b[1]] # <<>>)
      IN  /\ Len(plan) = Len(present) + 1
          /\ \A k \in 1..Len(present) :
                IsPhaseOf(plan[k], present[k][1], present[k][2])
          /\ IsOngoingPhase(plan[Len(plan)])
          /\ \A k \in 1..(Len(plan) - 1) : plan[k].priority < plan[k + 1].priority

C19_Witness ==
    /\ pc = "Done"
    /\ html_content = PageManyCritical
    /\ Len(results.critical_issues) = 7
    /\ Len(results.action_plan) = 4
    /\ Len(results.action_plan[1].tasks) = 5
    /\ results.action_plan[1].tasks[5] = <<"Missing viewport meta tag">>

\* a passed finding whose message (its check name) speaks of `name`
PassedNamed(name) ==
    \E i \in 1..Len(results.passed_checks) : results.passed_checks[i].check = name

InsightIf(cond, title) == IF cond THEN <<title>> ELSE <<>>

\* the titles of the insights whose conditions hold on the report, in order
DueInsights ==
    InsightIf(Len(results.critical_issues) > 0,
              "Critical Issues Require Immediate Attention")
      \o InsightIf(Len(results.high_priority) > 3,
                   "Multiple High-Priority Issues Detected")
      \o InsightIf(Get(results.content_data, "word_count", 0) < 300,
                   "Content Length Opportunity")
      \o InsightIf(~PassedNamed("HTTPS"), "Security Alert")
      \o InsightIf(~PassedNamed("Viewport Meta Tag"),
                   "Mobile Optimization Missing")
      \o InsightIf(Get(results.performance_data, "load_time", 0) > 300,
                   "Performance Optimization Needed")

\* C20: after a completed audit the insights are, in this order and once
\* each, exactly those whose condition holds on the final report: critical
\* count > 0, high count > 3, word_count < 300, no passed finding whose
\* message contains "HTTPS", none whose message contains "Viewport",
\* load_time > 3; each carries a recommended action.
C20_Insights ==
    pc = "Done" =>
      /\ [i \in 1..Len(results.insights) |-> results.insights[i].title]
           = DueInsights
      /\ \A i \in 1..Len(results.insights) : results.insights[i].action # ""

\* the findings a step has added to a bucket, as their messages
AddedIssues(bucket) ==
    [i \in 1..Len(Added(bucket)) |-> Added(bucket)[i].issue[1]]

\* the description table on a page whose description has n characters
DescTable(n) ==
    /\ (n = 0) <=> AddedIssues("critical_issues") = <<"Empty meta description">>
    /\ (n > 0 /\ n < 120) <=>
          AddedIssues("high_priority") = <<"Meta description too short (">>
    /\ (n > 160) <=>
          AddedIssues("medium_priority") = <<"Meta description too long (">>
    /\ (n >= 120 /\ n <= 160) <=>
          /\ Len(Added("passed_checks")) = 1
          /\ Added("passed_checks")[1].check = "Meta Description"

\* C21: a document without <meta name="description"> gets the CRITICAL
\* finding "Missing meta description" from check_meta_description, whatever
\* other meta tags it has; an empty description gets CRITICAL, one under
\* 120 characters HIGH, one over 160 MEDIUM, one of 120 to 160 a passed
\* check.
C21_MetaDescription ==
    [][pc = "check_meta_description" =>
         /\ NoMetaNamed(html_content, S_description) =>
               AddedIssues("critical_issues") = <<"Missing meta description">>
         /\ \A n \in DescLengths :
               html_content = PageDesc(n) => DescTable(n)]_vars

\* the stripped text of the document's first <h1> (the headings of the
\* pages have no child elements)
FirstH1Text(markup) ==
    Strip(markup[CHOOSE i \in 1..Len(markup) :
                    /\ markup[i].tag = "h1"
                    /\ \A j \in 1..(i - 1) : markup[j].tag # "h1"].text)

\* the H1 findings a step has added to a bucket
AddedH1(bucket) == SelectSeq(Added(bucket), IsH1Finding)

\* the bucket the H1 table names for the document
H1Bucket(markup) ==
    IF H1Count(markup) = 0 THEN "critical_issues"
    ELSE IF H1Count(markup) > 1 THEN "high_priority"
    ELSE IF Len(FirstH1Text(markup)) < 20 THEN "medium_priority"
    ELSE "passed_checks"

\* C22: the H1 part of check_headings_structure files exactly one H1
\* finding: CRITICAL without an H1, HIGH with more than one, MEDIUM with one
\* H1 shorter than 20 characters, a passed check with one H1 of at least
\* 20 characters.
C22_H1Exclusive ==
    [][pc = "check_headings_structure" =>
         \A b \in Range(Buckets) :
            Len(AddedH1(b)) = IF b = H1Bucket(html_content) THEN 1 ELSE 0]_vars

\* C23: check_canonical_url files a HIGH finding exactly when the
\* canonical link is absent or points to a host other than the page's; a
\* canonical on the page's own host, a relative or host-less href
\* included, gets no HIGH finding.
C23_CanonicalHost ==
    [][pc = "check_canonical_url" =>
         /\ NoTag(html_content, "link") =>
               AddedIssues("high_priority") = <<"Missing canonical URL">>
         /\ \A h \in OtherHostHrefs :
               html_content = PageCanonical(h) =>
                 AddedIssues("high_priority")
                   = <<"Canonical points to different domain">>
         /\ \A h \in SameHostHrefs :
               html_content = PageCanonical(h) =>
                 Added("high_priority") = <<>>]_vars

\* the header names of the checks, each with its lower-case spelling
HeaderSpellings ==
    [h \in {"Strict-Transport-Security", "X-Content-Type-Options",
            "X-Frame-Options", "X-XSS-Protection", "Content-Security-Policy",
            "Content-Encoding"} |->
       CASE h = "Strict-Transport-Security" ->
              {h, "strict-transport-security"}
         [] h = "X-Content-Type-Options" -> {h, "x-content-type-options"}
         [] h = "X-Frame-Options" -> {h, "x-frame-options"}
         [] h = "X-XSS-Protection" -> {h, "x-xss-protection"}
         [] h = "Content-Security-Policy" -> {h, "content-security-policy"}
         [] OTHER -> {h, "content-encoding"}]

\* the response carries the header under some letter-case
Carries(h) == HeaderSpellings[h] \cap DOMAIN response[1].headers # {}

\* the security headers the LOW finding lists as missing
ListedMissing ==
    UNION {{f.headers[i][1] : i \in 1..Len(f.headers)} :
             f \in {g \in Range(results.low_priority) :
                       g.issue[1] = "Missing security headers: "}}

\* C24: a security header or the Content-Encoding header that the response
\* carries under any letter-case counts as present: it is not listed in the
\* LOW "Missing security headers" finding and there is no MEDIUM
\* "compression not enabled" finding.
C24_HeaderCase ==
    (pc = "Done" /\ response # None) =>
       /\ \A h \in DOMAIN HeaderSpellings \ {"Content-Encoding"} :
             Carries(h) => h \notin ListedMissing
       /\ Carries("Content-Encoding") =>
             \A i \in 1..Len(results.medium_priority) :
                results.medium_priority[i].issue
                  # <<"GZIP compression not enabled">>

\* C25: every finding of every check carries one of the five categories
\* that calculate_scores rolls up, so that every critical, high, medium and
\* passed finding counts in exactly one category score.
C25_CategoryVocabulary ==
    \A b \in Range(Buckets) : \A i \in 1..Len(results[b]) :
       results[b][i].category \in FixedCategories

\* the internal links among the <a href> of the fetched document
DocumentInternal ==
    SelectSeq(DocumentLinks, LAMBDA n : IsInternal(url, domain, n.attrs["href"]))

\* the bucket of the internal-linking finding for n internal links
LinkBucket(n) ==
    IF n = 0 THEN "high_priority"
    ELSE IF n < 3 THEN "medium_priority" ELSE "passed_checks"

AddedLinking(bucket) ==
    SelectSeq(Added(bucket), LAMBDA f : f.category = "Internal Linking")

\* C26: when check_internal_linking completes, the stored internal and
\* external link counts are the counts over every <a href> of the fetched
\* document, links inside nav, header, footer and aside included, and the
\* one internal-linking finding is HIGH for 0, MEDIUM for 1-2 and PASSED
\* for 3 or more of the document's internal links, although
\* analyze_content_quality has run before.
C26_LinksOfDocument ==
    [][(pc = "check_internal_linking" /\ pc' = After("check_internal_linking")) =>
         /\ results'.content_data.internal_links = Len(DocumentInternal)
         /\ results'.content_data.external_links =
              Len(DocumentLinks) - Len(DocumentInternal)
         /\ \A b \in Range(Buckets) :
               Len(AddedLinking(b)) =
                  IF b = LinkBucket(Len(DocumentInternal)) THEN 1 ELSE 0]_vars

\* C27: after a completed audit that holds the CRITICAL finding 'Site not
\* using HTTPS', the Security category score is below 100.
C27_SecurityScore ==
    (pc = "Done" /\ HasCritical("Site not using HTTPS")) =>
       results.category_scores["Security"] < 100

HasInsight(title) ==
    \E i \in 1..Len(results.insights) : results.insights[i].title = title

\* C28: after a completed audit the 'Security Alert' insight is present
\* iff the URL does not start with https://, and the 'Mobile Optimization
\* Missing' insight is present iff the document has no viewport meta tag,
\* whatever the title, H1 text or canonical URL of the page say.
C28_AlertInsights ==
    pc = "Done" =>
      /\ HasInsight("Security Alert") <=> SubSeq(url, 1, 8) # S_https
      /\ HasInsight("Mobile Optimization Missing")
           <=> NoMetaNamed(html_content, S_viewport)

HasHighStarting(message) ==
    \E i \in 1..Len(results.high_priority) :
       /\ results.high_priority[i].severity = "HIGH"
       /\ results.high_priority[i].issue[1] = message

\* C29: after a completed audit the 'Performance Optimization Needed'
\* insight is present iff the HIGH 'Slow page load time' finding is, for
\* every load time (3.004 s included), and the 'Content Length
\* Opportunity' insight is present iff the HIGH 'Thin content' finding is.
C29_FindingInsights ==
    pc = "Done" =>
      /\ HasInsight("Performance Optimization Needed")
           <=> HasHighStarting("Slow page load time (")
      /\ HasInsight("Content Length Opportunity")
           <=> HasHighStarting("Thin content (")

\* overall_score after calculate_scores on buckets of these sizes; an empty
\* report keeps the 0 the score was initialised with
ScoreOf(c, h, m, l, p) ==
    IF c + h + m + l + p = 0 THEN 0 ELSE OverallScore(c, h, m, l, p)

\* s is the score of the sizes c, h, m, l, p: one more finding, or one
\* finding made more urgent, moves the score in the stated direction
MonotoneAt(s, c, h, m, l, p) ==
    /\ s = ScoreOf(c, h, m, l, p)
    /\ ScoreOf(c, h, m, l, p + 1) >= s
    /\ ScoreOf(c + 1, h, m, l, p) <= s
    /\ ScoreOf(c, h + 1, m, l, p) <= s
    /\ ScoreOf(c, h, m + 1, l, p) <= s
    /\ ScoreOf(c, h, m, l + 1, p) <= s
    /\ l > 0 => ScoreOf(c, h, m + 1, l - 1, p) <= s
    /\ m > 0 => ScoreOf(c, h + 1, m - 1, l, p) <= s
    /\ h > 0 => ScoreOf(c + 1, h - 1, m, l, p) <= s

\* C30: overall_score is monotone in the findings: one more PASSED finding
\* never decreases it, one more CRITICAL, HIGH, MEDIUM or LOW finding
\* never increases it, and replacing a finding by one of the next more
\* urgent severity (LOW -> MEDIUM -> HIGH -> CRITICAL) never increases it.
C30_ScoreMonotone ==
    pc = "Done" =>
       MonotoneAt(results.overall_score,
                  Len(results.critical_issues), Len(results.high_priority),
                  Len(results.medium_priority), Len(results.low_priority),
                  Len(results.passed_checks))

\* one finding in each issue bucket and three passed checks: score 14, and
\* a fourth passed check or a second critical finding changes it
C30_Witness ==
    /\ pc = "Done"
    /\ Len(results.critical_issues) = 1 /\ Len(results.high_priority) = 1
    /\ Len(results.medium_priority) = 1 /\ Len(results.low_priority) = 1
    /\ Len(results.passed_checks) = 3
    /\ results.overall_score = 14
    /\ ScoreOf(1, 1, 1, 1, 4) = 25
    /\ ScoreOf(2, 1, 1, 1, 3) = 0
    /\ ScoreOf(1, 1, 2, 0, 3) = 11

=============================================================================
